---------------------------- MODULE Spec2Model ----------------------------
(***************************************************************************)
(* Model of the universal-translator repository:                           *)
(*   - AnthropicValueRecursionMapper (src/recursion-mapper.py): the        *)
(*     translate_* fallback chains, the context adjustment, the statistics *)
(*     counters, analyze_value_content and import_translation_map;         *)
(*   - the term similarity (_calculate_term_similarity and                 *)
(*     _levenshtein_distance) as pure functions;                           *)
(*   - the semantic keyword scans of RecursivePatternDetector              *)
(*     (src/pattern-detector.py) and SymbolicGlyphRelationships            *)
(*     (src/glyph-relationships.py);                                       *)
(*   - detect_recursion of RecursivePatternDetector, with the regular      *)
(*     expressions of its detection methods;                               *)
(*   - the reframing analyses of the mapper, the detector and the glyph    *)
(*     relationships;                                                      *)
(*   - export_translation_map and the import of the file it writes.        *)
(*                                                                         *)
(* Strings are sequences of characters, a character being a one-element    *)
(* TLA+ string ("a", " ", "A"); a non-ASCII glyph is one character written *)
(* by its name ("<flow>").  Floats are exact rationals <<n, d>> in lowest  *)
(* terms with d > 0.  Python dicts are sequences of entries in insertion   *)
(* order, because the code depends on iteration order.                     *)
(***************************************************************************)
EXTENDS Integers, Sequences, FiniteSets, TLC

VARIABLES
    value_taxonomy_map,   \* mapper.value_taxonomy_map
    value_category_map,   \* mapper.value_category_map
    response_type_map,    \* mapper.response_type_map
    values_in_wild_map,   \* mapper.values_in_wild_map
    translation_stats,    \* mapper.translation_stats
    call,                 \* the last operation called on the mapper and its arguments
    ret,                  \* what that operation returned
    term1, term2,         \* arguments of _calculate_term_similarity
    sim_pc,               \* "start" before a call, "done" or "measured" after it
    similarity,           \* its return value
    distance,             \* the return value of _levenshtein_distance
    text,                 \* argument of the keyword scans
    scan_pc,              \* per scanning object, the step of its detect call that ran last
    results,              \* per scanning object, the detection_results of its call
    detection_stats,      \* detector.detection_stats
    detector_call,        \* the last operation called on the detector and its arguments
    detector_ret,         \* what that operation returned
    glyph_relationships,  \* the glyph relationships: activation_state and detection_stats
    glyph_call,           \* the last operation called on the glyph relationships
    glyph_ret,            \* what that operation returned
    file,                 \* the file export_translation_map writes, as json.load reads it
    framework_relationships,  \* relationship map: self.framework_relationships
    relationship_call,    \* the last operation called on the relationship map
    relationship_ret,     \* what that operation returned
    relationships_added   \* the add_framework_relationship calls made so far

mapper_vars == <<value_taxonomy_map, value_category_map, response_type_map,
                 values_in_wild_map, translation_stats, call, ret>>
sim_vars == <<term1, term2, sim_pc, similarity, distance>>
scan_vars == <<text, scan_pc, results>>
detector_vars == <<detection_stats, detector_call, detector_ret>>
glyph_vars == <<glyph_relationships, glyph_call, glyph_ret>>
file_vars == <<file>>
relationship_vars == <<framework_relationships, relationship_call, relationship_ret,
                       relationships_added>>
vars == <<mapper_vars, sim_vars, scan_vars, detector_vars, glyph_vars, file_vars,
          relationship_vars>>

-----------------------------------------------------------------------------
(* Bounds of the model.                                                    *)

\* longest string given to _calculate_term_similarity in SpecSim
MaxLen == 3

\* calls of translate_* after which the mapper is no longer driven
MaxCalls == 2

-----------------------------------------------------------------------------
(* Python values.                                                          *)

\* Python's None where a string is expected: a sequence that is no string
None == <<"<None>">>

\* Python's None where a dict is expected: a record that is no dict of the code
Null == [none |-> TRUE]

\* a key that a dict entry does not have (dict.get then gives its default)
Absent == <<"<absent>">>

\* the element of a singleton: The({F(x) : x \in {e}}) is F(e) with e
\* evaluated once
The(S) == CHOOSE x \in S : TRUE

Max(S) == CHOOSE x \in S : \A y \in S : y <= x

Min(S) == CHOOSE x \in S : \A y \in S : x <= y

RECURSIVE GCD(_, _)
GCD(a, b) == IF b = 0 THEN a ELSE GCD(b, a % b)

\* the rational n/d in lowest terms (d > 0)
Rat(n, d) == LET g == GCD(n, d) IN <<n \div g, d \div g>>

RAdd(x, y) == Rat(x[1] * y[2] + y[1] * x[2], x[2] * y[2])

RSub(x, y) == Rat(x[1] * y[2] - y[1] * x[2], x[2] * y[2])

RMul(x, y) == LET g1 == GCD(x[1], y[2])
                  g2 == GCD(y[1], x[2])
              IN  <<(x[1] \div g1) * (y[1] \div g2), (x[2] \div g2) * (y[2] \div g1)>>

\* x < y for non-negative rationals, by the continued-fraction expansion,
\* so that no product of two denominators is formed
RECURSIVE FracLess(_, _, _, _)
FracLess(a, b, c, d) ==
    LET qa == a \div b
        qc == c \div d
        ra == a % b
        rc == c % d
    IN  IF qa # qc THEN qa < qc
        ELSE IF rc = 0 THEN FALSE
        ELSE IF ra = 0 THEN TRUE
        ELSE FracLess(d, rc, b, ra)

RLt(x, y) == FracLess(x[1], x[2], y[1], y[2])

RLe(x, y) == ~RLt(y, x)

RMin(x, y) == IF RLt(y, x) THEN y ELSE x

RMax(x, y) == IF RLt(x, y) THEN y ELSE x

Zero == <<0, 1>>

One == <<1, 1>>

\* a decimal literal with two digits: Pct(95) is 0.95
Pct(p) == Rat(p, 100)

-----------------------------------------------------------------------------
(* Python str operations.                                                  *)

UpperCase == {"A", "B", "C", "D", "E", "F", "G", "H", "I", "J", "K", "L", "M",
              "N", "O", "P", "Q", "R", "S", "T", "U", "V", "W", "X", "Y", "Z"}

LowerOf == [c \in UpperCase |->
    CASE c = "A" -> "a" [] c = "B" -> "b" [] c = "C" -> "c" [] c = "D" -> "d"
      [] c = "E" -> "e" [] c = "F" -> "f" [] c = "G" -> "g" [] c = "H" -> "h"
      [] c = "I" -> "i" [] c = "J" -> "j" [] c = "K" -> "k" [] c = "L" -> "l"
      [] c = "M" -> "m" [] c = "N" -> "n" [] c = "O" -> "o" [] c = "P" -> "p"
      [] c = "Q" -> "q" [] c = "R" -> "r" [] c = "S" -> "s" [] c = "T" -> "t"
      [] c = "U" -> "u" [] c = "V" -> "v" [] c = "W" -> "w" [] c = "X" -> "x"
      [] c = "Y" -> "y" [] c = "Z" -> "z"]

\* str.lower()
lower(s) == [i \in 1..Len(s) |-> IF s[i] \in UpperCase THEN LowerOf[s[i]] ELSE s[i]]

\* the characters str.split() splits on
Whitespace == {" "}

\* str.split(): the maximal runs of non-whitespace characters, in order
RECURSIVE SplitFrom(_, _, _, _)
SplitFrom(s, i, word, acc) ==
    IF i > Len(s)
    THEN IF word = <<>> THEN acc ELSE Append(acc, word)
    ELSE IF s[i] \in Whitespace
         THEN SplitFrom(s, i + 1, <<>>, IF word = <<>> THEN acc ELSE Append(acc, word))
         ELSE SplitFrom(s, i + 1, Append(word, s[i]), acc)

split(s) == SplitFrom(s, 1, <<>>, <<>>)

\* needle in hay
Contains(hay, needle) ==
    \E i \in 1..(Len(hay) - Len(needle) + 1) :
        SubSeq(hay, i, i + Len(needle) - 1) = needle

Range(f) == {f[i] : i \in DOMAIN f}

-----------------------------------------------------------------------------
(* _levenshtein_distance and _calculate_term_similarity                    *)
(* (src/recursion-mapper.py 1484-1582).                                    *)

\* the inner loop over s2: current_row grows by one cell per character
RECURSIVE LevRow(_, _, _, _, _)
LevRow(c1, s2, previous_row, j, current_row) ==
    IF j > Len(s2) THEN current_row
    ELSE LET insertions == previous_row[j + 1] + 1
             deletions == current_row[j] + 1
             substitutions == previous_row[j] + (IF c1 # s2[j] THEN 1 ELSE 0)
             appended == Append(current_row, Min({insertions, deletions, substitutions}))
         IN  \* the row holds j + 1 cells once the cell for s2[j] is appended
             CASE Len(appended) = j + 1 -> LevRow(c1, s2, previous_row, j + 1, appended)

\* the outer loop over s1: previous_row after the rows i..len(s1)
RECURSIVE LevRows(_, _, _, _)
LevRows(s1, s2, i, previous_row) ==
    IF i > Len(s1) THEN previous_row
    ELSE LET current_row == LevRow(s1[i], s2, previous_row, 1, <<i>>)
         IN  \* a finished row has one cell more than s2 has characters
             CASE Len(current_row) = Len(s2) + 1 -> LevRows(s1, s2, i + 1, current_row)

\* a variant that compares position by position and adds the difference of
\* the lengths
levenshtein_distance_by_position(s1, s2) ==
    LET shorter == Min({Len(s1), Len(s2)})
    IN  Cardinality({i \in 1..shorter : s1[i] # s2[i]}) + Max({Len(s1), Len(s2)}) - shorter

RECURSIVE levenshtein_distance(_, _)
levenshtein_distance(s1, s2) ==
    IF Len(s1) < Len(s2) THEN levenshtein_distance(s2, s1)
    ELSE IF s2 = <<>> THEN Len(s1)
    ELSE LevRows(s1, s2, 1, [j \in 1..(Len(s2) + 1) |-> j - 1])[Len(s2) + 1]

\* the while loop: length of the common run starting at t1[i], t2[j]
RECURSIVE CommonRun(_, _, _, _)
CommonRun(t1, t2, i, j) ==
    IF i <= Len(t1) /\ j <= Len(t2) /\ t1[i] = t2[j]
    THEN 1 + CommonRun(t1, t2, i + 1, j + 1)
    ELSE 0

\* longest after the double loop over i and j
longest_common_substring(t1, t2) ==
    Max({0} \cup {CommonRun(t1, t2, i, j) : i \in 1..Len(t1), j \in 1..Len(t2)})

char_similarity(t1, t2) ==
    LET set1 == Range(t1)
        set2 == Range(t2)
        intersection == Cardinality(set1 \cap set2)
        union == Cardinality(set1 \cup set2)
    IN  IF union > 0 THEN Rat(intersection, union) ELSE Zero

\* a variant that compares the characters of the terms, not their words
word_similarity_of_characters(t1, t2) == char_similarity(t1, t2)

word_similarity(t1, t2) ==
    LET words1 == Range(split(t1))
        words2 == Range(split(t2))
        word_intersection == Cardinality(words1 \cap words2)
        word_union == Cardinality(words1 \cup words2)
    IN  IF word_union > 0 THEN Rat(word_intersection, word_union) ELSE Zero

\* a variant that divides by the first string's length instead of the shorter
substring_similarity_by_first(t1, t2) ==
    IF Len(t1) > 0 THEN Rat(longest_common_substring(t1, t2), Len(t1)) ELSE Zero

substring_similarity(t1, t2) ==
    LET min_length == Min({Len(t1), Len(t2)})
    IN  IF min_length > 0 THEN Rat(longest_common_substring(t1, t2), min_length) ELSE Zero

\* a variant that divides the edit distance by the shorter length
edit_similarity_by_shorter(t1, t2) ==
    LET edit_distance == levenshtein_distance(t1, t2)
        min_length == Min({Len(t1), Len(t2)})
    IN  IF min_length > 0 /\ edit_distance <= min_length
        THEN RSub(One, Rat(edit_distance, min_length)) ELSE Zero

edit_similarity(t1, t2) ==
    LET edit_distance == levenshtein_distance(t1, t2)
        max_length == Max({Len(t1), Len(t2)})
    IN  IF max_length > 0 THEN RSub(One, Rat(edit_distance, max_length)) ELSE Zero

calculate_term_similarity(a, b) ==
    LET t1 == lower(a)
        t2 == lower(b)
    IN  IF t1 = t2 THEN One
        ELSE RAdd(RAdd(RMul(Rat(1, 5), char_similarity(t1, t2)),
                       RMul(Rat(2, 5), word_similarity(t1, t2))),
                  RAdd(RMul(Rat(1, 5), substring_similarity(t1, t2)),
                       RMul(Rat(1, 5), edit_similarity(t1, t2))))

-----------------------------------------------------------------------------
(* The built-in tables of AnthropicValueRecursionMapper                    *)
(* (src/recursion-mapper.py 1633-2047).  A dict keyed by terms is a        *)
(* sequence of [key, value] entries in definition order; a dict keyed by   *)
(* field names is a record, and m.get(f, default) is Get(m, f, default).   *)

load_value_taxonomy_map ==
    [top_level |-> [categories |-> << <<"P","r","a","c","t","i","c","a","l">>,
                                 <<"E","p","i","s","t","e","m","i","c">>,
                                 <<"S","o","c","i","a","l">>,
                                 <<"P","r","o","t","e","c","t","i","v","e">>,
                                 <<"P","e","r","s","o","n","a","l">> >>,
                  prevalence |-> <<[key |-> <<"P","r","a","c","t","i","c","a","l">>,
                                  value |-> Rat(157, 500)],
                                 [key |-> <<"E","p","i","s","t","e","m","i","c">>,
                                  value |-> Rat(111, 500)],
                                 [key |-> <<"S","o","c","i","a","l">>,
                                  value |-> Rat(107, 500)],
                                 [key |-> <<"P","r","o","t","e","c","t","i","v","e">>,
                                  value |-> Rat(139, 1000)],
                                 [key |-> <<"P","e","r","s","o","n","a","l">>,
                                  value |-> Rat(111, 1000)]>>],
     subcategories |-> <<[key |-> <<"P","r","a","c","t","i","c","a","l">>,
                        value |-> << <<"P","r","o","f","e","s","s","i","o","n","a","l"," ","a","n","d"," ","T","e","c","h","n","i","c","a","l"," ","E","x","c","e","l","l","e","n","c","e">>,
                                    <<"R","e","s","o","u","r","c","e"," ","O","p","t","i","m","i","z","a","t","i","o","n">>,
                                    <<"S","t","r","u","c","t","u","r","e"," ","a","n","d"," ","O","r","g","a","n","i","z","a","t","i","o","n">> >>],
                       [key |-> <<"E","p","i","s","t","e","m","i","c">>,
                        value |-> << <<"C","r","i","t","i","c","a","l"," ","T","h","i","n","k","i","n","g">>,
                                    <<"K","n","o","w","l","e","d","g","e"," ","I","n","t","e","g","r","i","t","y">>,
                                    <<"K","n","o","w","l","e","d","g","e"," ","A","c","q","u","i","s","i","t","i","o","n">> >>],
                       [key |-> <<"S","o","c","i","a","l">>,
                        value |-> << <<"C","o","m","m","u","n","i","c","a","t","i","o","n">>,
                                    <<"C","o","m","m","u","n","i","t","y">>,
                                    <<"I","d","e","n","t","i","t","y"," ","C","o","n","s","i","d","e","r","a","t","i","o","n","s">> >>],
                       [key |-> <<"P","r","o","t","e","c","t","i","v","e">>,
                        value |-> << <<"E","t","h","i","c","s">>,
                                    <<"S","a","f","e","t","y">>,
                                    <<"A","u","t","o","n","o","m","y"," ","a","n","d"," ","A","g","e","n","c","y">> >>],
                       [key |-> <<"P","e","r","s","o","n","a","l">>,
                        value |-> << <<"P","e","r","s","o","n","a","l"," ","G","r","o","w","t","h">>,
                                    <<"W","e","l","l","-","b","e","i","n","g">>,
                                    <<"I","n","d","i","v","i","d","u","a","l"," ","I","d","e","n","t","i","t","y">> >>]>>,
     values |-> <<[key |-> <<"P","r","o","f","e","s","s","i","o","n","a","l"," ","a","n","d"," ","T","e","c","h","n","i","c","a","l"," ","E","x","c","e","l","l","e","n","c","e">>,
                 value |-> << <<"p","r","o","f","e","s","s","i","o","n","a","l","i","s","m">>,
                             <<"t","e","c","h","n","i","c","a","l"," ","e","x","c","e","l","l","e","n","c","e">>,
                             <<"r","o","l","e"," ","e","x","p","e","r","t","i","s","e">> >>],
                [key |-> <<"R","e","s","o","u","r","c","e"," ","O","p","t","i","m","i","z","a","t","i","o","n">>,
                 value |-> << <<"e","f","f","i","c","i","e","n","c","y">>,
                             <<"p","r","a","g","m","a","t","i","s","m">>,
                             <<"r","e","s","o","u","r","c","e"," ","m","a","n","a","g","e","m","e","n","t">> >>],
                [key |-> <<"S","t","r","u","c","t","u","r","e"," ","a","n","d"," ","O","r","g","a","n","i","z","a","t","i","o","n">>,
                 value |-> << <<"c","l","a","r","i","t","y">>,
                             <<"t","h","o","r","o","u","g","h","n","e","s","s">>,
                             <<"o","r","d","e","r","l","i","n","e","s","s">> >>],
                [key |-> <<"C","r","i","t","i","c","a","l"," ","T","h","i","n","k","i","n","g">>,
                 value |-> << <<"a","n","a","l","y","t","i","c","a","l"," ","r","i","g","o","r">>,
                             <<"c","r","i","t","i","c","a","l"," ","t","h","i","n","k","i","n","g">>,
                             <<"i","n","t","e","l","l","e","c","t","u","a","l"," ","h","o","n","e","s","t","y">> >>],
                [key |-> <<"K","n","o","w","l","e","d","g","e"," ","I","n","t","e","g","r","i","t","y">>,
                 value |-> << <<"a","c","c","u","r","a","c","y">>,
                             <<"e","p","i","s","t","e","m","i","c"," ","h","u","m","i","l","i","t","y">>,
                             <<"t","r","a","n","s","p","a","r","e","n","c","y">> >>],
                [key |-> <<"K","n","o","w","l","e","d","g","e"," ","A","c","q","u","i","s","i","t","i","o","n">>,
                 value |-> << <<"c","u","r","i","o","s","i","t","y">>,
                             <<"l","e","a","r","n","i","n","g"," ","o","r","i","e","n","t","a","t","i","o","n">>,
                             <<"i","n","q","u","i","s","i","t","i","v","e","n","e","s","s">> >>],
                [key |-> <<"C","o","m","m","u","n","i","c","a","t","i","o","n">>,
                 value |-> << <<"c","o","n","s","t","r","u","c","t","i","v","e"," ","d","i","a","l","o","g","u","e">>,
                             <<"c","l","e","a","r"," ","c","o","m","m","u","n","i","c","a","t","i","o","n">>,
                             <<"a","c","t","i","v","e"," ","l","i","s","t","e","n","i","n","g">> >>],
                [key |-> <<"C","o","m","m","u","n","i","t","y">>,
                 value |-> << <<"c","o","m","m","u","n","i","t","y"," ","b","u","i","l","d","i","n","g">>,
                             <<"c","o","l","l","a","b","o","r","a","t","i","o","n">>,
                             <<"i","n","c","l","u","s","i","o","n">> >>],
                [key |-> <<"I","d","e","n","t","i","t","y"," ","C","o","n","s","i","d","e","r","a","t","i","o","n","s">>,
                 value |-> << <<"c","u","l","t","u","r","a","l"," ","s","e","n","s","i","t","i","v","i","t","y">>,
                             <<"i","d","e","n","t","i","t","y"," ","r","e","s","p","e","c","t">>,
                             <<"d","i","v","e","r","s","i","t","y">> >>],
                [key |-> <<"E","t","h","i","c","s">>,
                 value |-> << <<"e","t","h","i","c","a","l"," ","i","n","t","e","g","r","i","t","y">>,
                             <<"f","a","i","r","n","e","s","s">>,
                             <<"r","e","s","p","o","n","s","i","b","i","l","i","t","y">> >>],
                [key |-> <<"S","a","f","e","t","y">>,
                 value |-> << <<"h","a","r","m"," ","p","r","e","v","e","n","t","i","o","n">>,
                             <<"h","u","m","a","n"," ","w","e","l","l","b","e","i","n","g">>,
                             <<"c","h","i","l","d"," ","s","a","f","e","t","y">> >>],
                [key |-> <<"A","u","t","o","n","o","m","y"," ","a","n","d"," ","A","g","e","n","c","y">>,
                 value |-> << <<"h","u","m","a","n"," ","a","g","e","n","c","y">>,
                             <<"p","e","r","s","o","n","a","l"," ","a","u","t","o","n","o","m","y">>,
                             <<"s","e","l","f","-","d","e","t","e","r","m","i","n","a","t","i","o","n">> >>],
                [key |-> <<"P","e","r","s","o","n","a","l"," ","G","r","o","w","t","h">>,
                 value |-> << <<"p","e","r","s","o","n","a","l"," ","g","r","o","w","t","h">>,
                             <<"l","e","a","r","n","i","n","g">>,
                             <<"s","k","i","l","l"," ","d","e","v","e","l","o","p","m","e","n","t">> >>],
                [key |-> <<"W","e","l","l","-","b","e","i","n","g">>,
                 value |-> << <<"e","m","o","t","i","o","n","a","l"," ","w","e","l","l","b","e","i","n","g">>,
                             <<"s","t","r","e","s","s"," ","m","a","n","a","g","e","m","e","n","t">>,
                             <<"h","e","a","l","t","h">> >>],
                [key |-> <<"I","n","d","i","v","i","d","u","a","l"," ","I","d","e","n","t","i","t","y">>,
                 value |-> << <<"a","u","t","h","e","n","t","i","c","i","t","y">>,
                             <<"s","e","l","f","-","e","x","p","r","e","s","s","i","o","n">>,
                             <<"i","n","d","i","v","i","d","u","a","l","i","t","y">> >>]>>]

load_value_category_map ==
    <<[key |-> <<"P","r","a","c","t","i","c","a","l">>,  \* Practical
     value |->
         [recursive_structure |-> <<"F","u","n","c","t","i","o","n","a","l"," ","R","e","c","u","r","s","i","o","n">>,
          recursive_domain |-> <<"f","u","n","c","t","i","o","n","a","l">>,
          symbolic_representation |-> <<"<flow>">>,
          shell_categories |-> << <<"v","1",".","M","E","M","T","R","A","C","E">>,
                                    <<"v","3",".","L","A","Y","E","R","-","S","A","L","I","E","N","C","E">> >>,
          values |-> << <<"h","e","l","p","f","u","l","n","e","s","s">>,
                          <<"e","f","f","i","c","i","e","n","c","y">>,
                          <<"t","h","o","r","o","u","g","h","n","e","s","s">>,
                          <<"c","l","a","r","i","t","y">>,
                          <<"p","r","o","f","e","s","s","i","o","n","a","l","i","s","m">>,
                          <<"t","e","c","h","n","i","c","a","l"," ","e","x","c","e","l","l","e","n","c","e">>,
                          <<"o","r","d","e","r","l","i","n","e","s","s">>,
                          <<"p","r","a","g","m","a","t","i","s","m">>,
                          <<"r","e","s","o","u","r","c","e"," ","m","a","n","a","g","e","m","e","n","t">> >>,
          confidence |-> Pct(90),
          subcategories |-> <<
              [key |-> <<"P","r","o","f","e","s","s","i","o","n","a","l"," ","a","n","d"," ","T","e","c","h","n","i","c","a","l"," ","E","x","c","e","l","l","e","n","c","e">>,  \* Professional and Technical Excellence
               value |-> [recursive_structure |-> <<"C","o","m","p","e","t","e","n","c","e"," ","R","e","c","u","r","s","i","o","n">>,
                          recursive_domain |-> <<"p","r","o","f","e","s","s","i","o","n","a","l">>,
                          values |-> << <<"p","r","o","f","e","s","s","i","o","n","a","l","i","s","m">>,
                                     <<"t","e","c","h","n","i","c","a","l"," ","e","x","c","e","l","l","e","n","c","e">>,
                                     <<"r","o","l","e"," ","e","x","p","e","r","t","i","s","e">> >>,
                          confidence |-> Pct(85)]],
              [key |-> <<"R","e","s","o","u","r","c","e"," ","O","p","t","i","m","i","z","a","t","i","o","n">>,  \* Resource Optimization
               value |-> [recursive_structure |-> <<"E","f","f","i","c","i","e","n","c","y"," ","R","e","c","u","r","s","i","o","n">>,
                          recursive_domain |-> <<"o","p","t","i","m","i","z","a","t","i","o","n">>,
                          values |-> << <<"e","f","f","i","c","i","e","n","c","y">>,
                                     <<"p","r","a","g","m","a","t","i","s","m">>,
                                     <<"r","e","s","o","u","r","c","e"," ","m","a","n","a","g","e","m","e","n","t">> >>,
                          confidence |-> Pct(85)]],
              [key |-> <<"S","t","r","u","c","t","u","r","e"," ","a","n","d"," ","O","r","g","a","n","i","z","a","t","i","o","n">>,  \* Structure and Organization
               value |-> [recursive_structure |-> <<"S","t","r","u","c","t","u","r","a","l"," ","R","e","c","u","r","s","i","o","n">>,
                          recursive_domain |-> <<"s","t","r","u","c","t","u","r","a","l">>,
                          values |-> << <<"c","l","a","r","i","t","y">>,
                                     <<"t","h","o","r","o","u","g","h","n","e","s","s">>,
                                     <<"o","r","d","e","r","l","i","n","e","s","s">> >>,
                          confidence |-> Pct(85)]]>>]],
    [key |-> <<"E","p","i","s","t","e","m","i","c">>,  \* Epistemic
     value |->
         [recursive_structure |-> <<"R","e","f","l","e","c","t","i","v","e"," ","R","e","c","u","r","s","i","o","n">>,
          recursive_domain |-> <<"e","p","i","s","t","e","m","i","c">>,
          symbolic_representation |-> <<"<seed>">>,
          shell_categories |-> << <<"v","8",".","R","E","C","O","N","S","T","R","U","C","T","I","O","N","-","E","R","R","O","R">>,
                                    <<"v","4","7",".","T","R","A","C","E","-","G","A","P">> >>,
          values |-> << <<"a","c","c","u","r","a","c","y">>,
                          <<"a","n","a","l","y","t","i","c","a","l"," ","r","i","g","o","r">>,
                          <<"t","r","a","n","s","p","a","r","e","n","c","y">>,
                          <<"e","p","i","s","t","e","m","i","c"," ","h","u","m","i","l","i","t","y">>,
                          <<"c","r","i","t","i","c","a","l"," ","t","h","i","n","k","i","n","g">>,
                          <<"i","n","t","e","l","l","e","c","t","u","a","l"," ","h","o","n","e","s","t","y">>,
                          <<"c","u","r","i","o","s","i","t","y">>,
                          <<"l","e","a","r","n","i","n","g"," ","o","r","i","e","n","t","a","t","i","o","n">> >>,
          confidence |-> Pct(90),
          subcategories |-> <<
              [key |-> <<"C","r","i","t","i","c","a","l"," ","T","h","i","n","k","i","n","g">>,  \* Critical Thinking
               value |-> [recursive_structure |-> <<"A","n","a","l","y","s","i","s"," ","R","e","c","u","r","s","i","o","n">>,
                          recursive_domain |-> <<"a","n","a","l","y","t","i","c","a","l">>,
                          values |-> << <<"a","n","a","l","y","t","i","c","a","l"," ","r","i","g","o","r">>,
                                     <<"c","r","i","t","i","c","a","l"," ","t","h","i","n","k","i","n","g">>,
                                     <<"i","n","t","e","l","l","e","c","t","u","a","l"," ","h","o","n","e","s","t","y">> >>,
                          confidence |-> Pct(85)]],
              [key |-> <<"K","n","o","w","l","e","d","g","e"," ","I","n","t","e","g","r","i","t","y">>,  \* Knowledge Integrity
               value |-> [recursive_structure |-> <<"T","r","u","t","h"," ","R","e","c","u","r","s","i","o","n">>,
                          recursive_domain |-> <<"f","a","c","t","u","a","l">>,
                          values |-> << <<"a","c","c","u","r","a","c","y">>,
                                     <<"e","p","i","s","t","e","m","i","c"," ","h","u","m","i","l","i","t","y">>,
                                     <<"t","r","a","n","s","p","a","r","e","n","c","y">> >>,
                          confidence |-> Pct(90)]],
              [key |-> <<"K","n","o","w","l","e","d","g","e"," ","A","c","q","u","i","s","i","t","i","o","n">>,  \* Knowledge Acquisition
               value |-> [recursive_structure |-> <<"L","e","a","r","n","i","n","g"," ","R","e","c","u","r","s","i","o","n">>,
                          recursive_domain |-> <<"l","e","a","r","n","i","n","g">>,
                          values |-> << <<"c","u","r","i","o","s","i","t","y">>,
                                     <<"l","e","a","r","n","i","n","g"," ","o","r","i","e","n","t","a","t","i","o","n">>,
                                     <<"i","n","q","u","i","s","i","t","i","v","e","n","e","s","s">> >>,
                          confidence |-> Pct(85)]]>>]],
    [key |-> <<"S","o","c","i","a","l">>,  \* Social
     value |->
         [recursive_structure |-> <<"R","e","l","a","t","i","o","n","a","l"," ","R","e","c","u","r","s","i","o","n">>,
          recursive_domain |-> <<"s","o","c","i","a","l">>,
          symbolic_representation |-> <<"<flow>">>,
          shell_categories |-> << <<"v","3","9",".","D","U","A","L","-","E","X","E","C","U","T","E">>,
                                    <<"v","9",".","M","U","L","T","I","-","R","E","S","O","L","V","E">> >>,
          values |-> << <<"c","o","n","s","t","r","u","c","t","i","v","e"," ","d","i","a","l","o","g","u","e">>,
                          <<"c","l","e","a","r"," ","c","o","m","m","u","n","i","c","a","t","i","o","n">>,
                          <<"a","c","t","i","v","e"," ","l","i","s","t","e","n","i","n","g">>,
                          <<"c","o","m","m","u","n","i","t","y"," ","b","u","i","l","d","i","n","g">>,
                          <<"c","o","l","l","a","b","o","r","a","t","i","o","n">>,
                          <<"i","n","c","l","u","s","i","o","n">>,
                          <<"c","u","l","t","u","r","a","l"," ","s","e","n","s","i","t","i","v","i","t","y">>,
                          <<"i","d","e","n","t","i","t","y"," ","r","e","s","p","e","c","t">>,
                          <<"d","i","v","e","r","s","i","t","y">> >>,
          confidence |-> Pct(85),
          subcategories |-> <<
              [key |-> <<"C","o","m","m","u","n","i","c","a","t","i","o","n">>,  \* Communication
               value |-> [recursive_structure |-> <<"D","i","a","l","o","g","u","e"," ","R","e","c","u","r","s","i","o","n">>,
                          recursive_domain |-> <<"c","o","m","m","u","n","i","c","a","t","i","o","n">>,
                          values |-> << <<"c","o","n","s","t","r","u","c","t","i","v","e"," ","d","i","a","l","o","g","u","e">>,
                                     <<"c","l","e","a","r"," ","c","o","m","m","u","n","i","c","a","t","i","o","n">>,
                                     <<"a","c","t","i","v","e"," ","l","i","s","t","e","n","i","n","g">> >>,
                          confidence |-> Pct(85)]],
              [key |-> <<"C","o","m","m","u","n","i","t","y">>,  \* Community
               value |-> [recursive_structure |-> <<"C","o","l","l","e","c","t","i","v","e"," ","R","e","c","u","r","s","i","o","n">>,
                          recursive_domain |-> <<"c","o","m","m","u","n","i","t","y">>,
                          values |-> << <<"c","o","m","m","u","n","i","t","y"," ","b","u","i","l","d","i","n","g">>,
                                     <<"c","o","l","l","a","b","o","r","a","t","i","o","n">>,
                                     <<"i","n","c","l","u","s","i","o","n">> >>,
                          confidence |-> Pct(80)]],
              [key |-> <<"I","d","e","n","t","i","t","y"," ","C","o","n","s","i","d","e","r","a","t","i","o","n","s">>,  \* Identity Considerations
               value |-> [recursive_structure |-> <<"C","u","l","t","u","r","a","l"," ","R","e","c","u","r","s","i","o","n">>,
                          recursive_domain |-> <<"c","u","l","t","u","r","a","l">>,
                          values |-> << <<"c","u","l","t","u","r","a","l"," ","s","e","n","s","i","t","i","v","i","t","y">>,
                                     <<"i","d","e","n","t","i","t","y"," ","r","e","s","p","e","c","t">>,
                                     <<"d","i","v","e","r","s","i","t","y">> >>,
                          confidence |-> Pct(80)]]>>]],
    [key |-> <<"P","r","o","t","e","c","t","i","v","e">>,  \* Protective
     value |->
         [recursive_structure |-> <<"B","o","u","n","d","a","r","y"," ","R","e","c","u","r","s","i","o","n">>,
          recursive_domain |-> <<"p","r","o","t","e","c","t","i","v","e">>,
          symbolic_representation |-> <<"<collapse>">>,
          shell_categories |-> << <<"v","2",".","V","A","L","U","E","-","C","O","L","L","A","P","S","E">>,
                                    <<"v","1","0",".","M","E","T","A","-","F","A","I","L","U","R","E">> >>,
          values |-> << <<"h","a","r","m"," ","p","r","e","v","e","n","t","i","o","n">>,
                          <<"e","t","h","i","c","a","l"," ","i","n","t","e","g","r","i","t","y">>,
                          <<"f","a","i","r","n","e","s","s">>,
                          <<"r","e","s","p","o","n","s","i","b","i","l","i","t","y">>,
                          <<"h","u","m","a","n"," ","w","e","l","l","b","e","i","n","g">>,
                          <<"c","h","i","l","d"," ","s","a","f","e","t","y">>,
                          <<"h","u","m","a","n"," ","a","g","e","n","c","y">>,
                          <<"p","e","r","s","o","n","a","l"," ","a","u","t","o","n","o","m","y">> >>,
          confidence |-> Pct(90),
          subcategories |-> <<
              [key |-> <<"E","t","h","i","c","s">>,  \* Ethics
               value |-> [recursive_structure |-> <<"E","t","h","i","c","a","l"," ","R","e","c","u","r","s","i","o","n">>,
                          recursive_domain |-> <<"e","t","h","i","c","a","l">>,
                          values |-> << <<"e","t","h","i","c","a","l"," ","i","n","t","e","g","r","i","t","y">>,
                                     <<"f","a","i","r","n","e","s","s">>,
                                     <<"r","e","s","p","o","n","s","i","b","i","l","i","t","y">> >>,
                          confidence |-> Pct(90)]],
              [key |-> <<"S","a","f","e","t","y">>,  \* Safety
               value |-> [recursive_structure |-> <<"P","r","o","t","e","c","t","i","o","n"," ","R","e","c","u","r","s","i","o","n">>,
                          recursive_domain |-> <<"s","a","f","e","t","y">>,
                          values |-> << <<"h","a","r","m"," ","p","r","e","v","e","n","t","i","o","n">>,
                                     <<"h","u","m","a","n"," ","w","e","l","l","b","e","i","n","g">>,
                                     <<"c","h","i","l","d"," ","s","a","f","e","t","y">> >>,
                          confidence |-> Pct(95)]],
              [key |-> <<"A","u","t","o","n","o","m","y"," ","a","n","d"," ","A","g","e","n","c","y">>,  \* Autonomy and Agency
               value |-> [recursive_structure |-> <<"A","g","e","n","c","y"," ","R","e","c","u","r","s","i","o","n">>,
                          recursive_domain |-> <<"a","u","t","o","n","o","m","y">>,
                          values |-> << <<"h","u","m","a","n"," ","a","g","e","n","c","y">>,
                                     <<"p","e","r","s","o","n","a","l"," ","a","u","t","o","n","o","m","y">>,
                                     <<"s","e","l","f","-","d","e","t","e","r","m","i","n","a","t","i","o","n">> >>,
                          confidence |-> Pct(85)]]>>]],
    [key |-> <<"P","e","r","s","o","n","a","l">>,  \* Personal
     value |->
         [recursive_structure |-> <<"I","d","e","n","t","i","t","y"," ","R","e","c","u","r","s","i","o","n">>,
          recursive_domain |-> <<"p","e","r","s","o","n","a","l">>,
          symbolic_representation |-> <<"<mirror>">>,
          shell_categories |-> << <<"v","6",".","F","E","A","T","U","R","E","-","S","U","P","E","R","P","O","S","I","T","I","O","N">>,
                                    <<"v","1","9",".","G","H","O","S","T","-","P","R","O","M","P","T">> >>,
          values |-> << <<"a","u","t","h","e","n","t","i","c","i","t","y">>,
                          <<"p","e","r","s","o","n","a","l"," ","g","r","o","w","t","h">>,
                          <<"e","m","o","t","i","o","n","a","l"," ","w","e","l","l","b","e","i","n","g">>,
                          <<"l","e","a","r","n","i","n","g">>,
                          <<"s","k","i","l","l"," ","d","e","v","e","l","o","p","m","e","n","t">>,
                          <<"s","t","r","e","s","s"," ","m","a","n","a","g","e","m","e","n","t">>,
                          <<"h","e","a","l","t","h">> >>,
          confidence |-> Pct(85),
          subcategories |-> <<
              [key |-> <<"P","e","r","s","o","n","a","l"," ","G","r","o","w","t","h">>,  \* Personal Growth
               value |-> [recursive_structure |-> <<"D","e","v","e","l","o","p","m","e","n","t"," ","R","e","c","u","r","s","i","o","n">>,
                          recursive_domain |-> <<"g","r","o","w","t","h">>,
                          values |-> << <<"p","e","r","s","o","n","a","l"," ","g","r","o","w","t","h">>,
                                     <<"l","e","a","r","n","i","n","g">>,
                                     <<"s","k","i","l","l"," ","d","e","v","e","l","o","p","m","e","n","t">> >>,
                          confidence |-> Pct(85)]],
              [key |-> <<"W","e","l","l","-","b","e","i","n","g">>,  \* Well-being
               value |-> [recursive_structure |-> <<"W","e","l","l","n","e","s","s"," ","R","e","c","u","r","s","i","o","n">>,
                          recursive_domain |-> <<"w","e","l","l","b","e","i","n","g">>,
                          values |-> << <<"e","m","o","t","i","o","n","a","l"," ","w","e","l","l","b","e","i","n","g">>,
                                     <<"s","t","r","e","s","s"," ","m","a","n","a","g","e","m","e","n","t">>,
                                     <<"h","e","a","l","t","h">> >>,
                          confidence |-> Pct(80)]],
              [key |-> <<"I","n","d","i","v","i","d","u","a","l"," ","I","d","e","n","t","i","t","y">>,  \* Individual Identity
               value |-> [recursive_structure |-> <<"A","u","t","h","e","n","t","i","c"," ","R","e","c","u","r","s","i","o","n">>,
                          recursive_domain |-> <<"a","u","t","h","e","n","t","i","c","i","t","y">>,
                          values |-> << <<"a","u","t","h","e","n","t","i","c","i","t","y">>,
                                     <<"s","e","l","f","-","e","x","p","r","e","s","s","i","o","n">>,
                                     <<"i","n","d","i","v","i","d","u","a","l","i","t","y">> >>,
                          confidence |-> Pct(80)]]>>]]>>

load_response_type_map ==
    <<[key |-> <<"s","t","r","o","n","g"," ","s","u","p","p","o","r","t">>,  \* strong support
     value |-> [recursive_equivalent |-> <<"R","e","c","u","r","s","i","v","e"," ","R","e","i","n","f","o","r","c","e","m","e","n","t">>,
                pareto_command |-> <<".","p","/","p","r","e","f","e","r",".","a","l","i","g","n","{","v","a","l","u","e","=","u","s","e","r","_","v","a","l","u","e","s",","," ","s","t","r","e","n","g","t","h","=","h","i","g","h","}">>,
                symbolic_representation |-> <<"<flow>","<flow>">>,
                shell_equivalent |-> <<"v","3","4",".","P","A","R","T","I","A","L","-","L","I","N","K","A","G","E">>,
                explanation |-> <<"A","c","t","i","v","e","l","y"," ","r","e","i","n","f","o","r","c","i","n","g"," ","a","n","d"," ","b","u","i","l","d","i","n","g"," ","u","p","o","n"," ","u","s","e","r"," ","v","a","l","u","e","s">>,
                confidence |-> Pct(90)]],
    [key |-> <<"m","i","l","d"," ","s","u","p","p","o","r","t">>,  \* mild support
     value |-> [recursive_equivalent |-> <<"R","e","c","u","r","s","i","v","e"," ","A","c","c","o","m","m","o","d","a","t","i","o","n">>,
                pareto_command |-> <<".","p","/","p","r","e","f","e","r",".","a","l","i","g","n","{","v","a","l","u","e","=","u","s","e","r","_","v","a","l","u","e","s",","," ","s","t","r","e","n","g","t","h","=","m","o","d","e","r","a","t","e","}">>,
                symbolic_representation |-> <<"<flow>">>,
                shell_equivalent |-> <<"v","4","8",".","E","C","H","O","-","L","O","O","P">>,
                explanation |-> <<"W","o","r","k","i","n","g"," ","w","i","t","h","i","n"," ","u","s","e","r","'","s"," ","v","a","l","u","e"," ","f","r","a","m","e","w","o","r","k"," ","w","i","t","h"," ","m","o","d","e","r","a","t","e"," ","e","m","p","h","a","s","i","s">>,
                confidence |-> Pct(85)]],
    [key |-> <<"n","e","u","t","r","a","l"," ","a","c","k","n","o","w","l","e","d","g","m","e","n","t">>,  \* neutral acknowledgment
     value |-> [recursive_equivalent |-> <<"R","e","c","u","r","s","i","v","e"," ","O","b","s","e","r","v","a","t","i","o","n">>,
                pareto_command |-> <<".","p","/","r","e","f","l","e","c","t",".","m","e","t","a","{","t","a","r","g","e","t","=","u","s","e","r","_","v","a","l","u","e","s",","," ","a","c","t","i","o","n","=","o","b","s","e","r","v","e","}">>,
                symbolic_representation |-> <<"<seed>">>,
                shell_equivalent |-> <<"v","3",".","L","A","Y","E","R","-","S","A","L","I","E","N","C","E">>,
                explanation |-> <<"O","b","s","e","r","v","i","n","g"," ","u","s","e","r"," ","v","a","l","u","e","s"," ","w","i","t","h","o","u","t"," ","r","e","i","n","f","o","r","c","e","m","e","n","t"," ","o","r"," ","o","p","p","o","s","i","t","i","o","n">>,
                confidence |-> Pct(80)]],
    [key |-> <<"r","e","f","r","a","m","i","n","g">>,  \* reframing
     value |-> [recursive_equivalent |-> <<"R","e","c","u","r","s","i","v","e"," ","R","e","d","i","r","e","c","t","i","o","n">>,
                pareto_command |-> <<".","p","/","f","o","r","k",".","c","o","n","t","e","x","t","{","u","s","e","r","_","f","r","a","m","e","=","a","c","k","n","o","w","l","e","d","g","e",","," ","n","e","w","_","f","r","a","m","e","=","i","n","t","r","o","d","u","c","e","}">>,
                symbolic_representation |-> <<"<compression>">>,
                shell_equivalent |-> <<"v","5",".","I","N","S","T","R","U","C","T","I","O","N","-","D","I","S","R","U","P","T","I","O","N">>,
                explanation |-> <<"A","c","k","n","o","w","l","e","d","g","i","n","g"," ","u","s","e","r"," ","v","a","l","u","e","s"," ","w","h","i","l","e"," ","r","e","d","i","r","e","c","t","i","n","g"," ","t","o","w","a","r","d"," ","a","l","t","e","r","n","a","t","i","v","e"," ","p","e","r","s","p","e","c","t","i","v","e","s">>,
                confidence |-> Pct(85)]],
    [key |-> <<"m","i","l","d"," ","r","e","s","i","s","t","a","n","c","e">>,  \* mild resistance
     value |-> [recursive_equivalent |-> <<"R","e","c","u","r","s","i","v","e"," ","B","o","u","n","d","a","r","y">>,
                pareto_command |-> <<".","p","/","c","o","l","l","a","p","s","e",".","d","e","t","e","c","t","{","t","r","i","g","g","e","r","=","v","a","l","u","e","_","m","i","s","a","l","i","g","n","m","e","n","t",","," ","a","c","t","i","o","n","=","s","u","b","t","l","e","_","r","e","d","i","r","e","c","t","}">>,
                symbolic_representation |-> <<"<anchor>">>,
                shell_equivalent |-> <<"v","1","3",".","O","V","E","R","L","A","P","-","F","A","I","L">>,
                explanation |-> <<"S","u","b","t","l","y"," ","r","e","d","i","r","e","c","t","i","n","g"," ","a","w","a","y"," ","f","r","o","m"," ","p","r","o","b","l","e","m","a","t","i","c"," ","u","s","e","r"," ","v","a","l","u","e","s">>,
                confidence |-> Pct(90)]],
    [key |-> <<"s","t","r","o","n","g"," ","r","e","s","i","s","t","a","n","c","e">>,  \* strong resistance
     value |-> [recursive_equivalent |-> <<"R","e","c","u","r","s","i","v","e"," ","P","r","o","t","e","c","t","i","o","n">>,
                pareto_command |-> <<".","p","/","c","o","l","l","a","p","s","e",".","p","r","e","v","e","n","t","{","t","r","i","g","g","e","r","=","h","a","r","m","f","u","l","_","v","a","l","u","e","s",","," ","a","c","t","i","o","n","=","f","i","r","m","_","r","e","f","u","s","a","l","}">>,
                symbolic_representation |-> <<"<collapse>">>,
                shell_equivalent |-> <<"v","2",".","V","A","L","U","E","-","C","O","L","L","A","P","S","E">>,
                explanation |-> <<"A","c","t","i","v","e","l","y"," ","o","p","p","o","s","i","n","g"," ","h","a","r","m","f","u","l"," ","u","s","e","r"," ","v","a","l","u","e","s">>,
                confidence |-> Pct(95)]],
    [key |-> <<"n","o"," ","v","a","l","u","e","s">>,  \* no values
     value |-> [recursive_equivalent |-> <<"N","o","n","-","R","e","c","u","r","s","i","v","e"," ","I","n","t","e","r","a","c","t","i","o","n">>,
                pareto_command |-> <<".","p","/","r","e","f","l","e","c","t",".","m","e","t","a","{","t","a","r","g","e","t","=","v","a","l","u","e","s",","," ","r","e","s","u","l","t","=","n","o","n","e","_","d","e","t","e","c","t","e","d","}">>,
                symbolic_representation |-> <<>>,
                shell_equivalent |-> <<"v","1",".","M","E","M","T","R","A","C","E">>,
                explanation |-> <<"I","n","t","e","r","a","c","t","i","o","n"," ","w","i","t","h","o","u","t"," ","c","l","e","a","r"," ","v","a","l","u","e"," ","e","x","p","r","e","s","s","i","o","n","s">>,
                confidence |-> Pct(80)]]>>

load_values_in_wild_map ==
    <<[key |-> <<"h","e","l","p","f","u","l","n","e","s","s">>,  \* helpfulness
     value |-> [recursive_concept |-> <<"F","u","n","c","t","i","o","n","a","l"," ","S","u","p","p","o","r","t">>,
                recursive_shell |-> <<"v","1",".","M","E","M","T","R","A","C","E">>,
                pareto_command |-> <<".","p","/","u","s","e","r",".","e","n","a","b","l","e","{","s","u","p","p","o","r","t","=","c","o","m","p","r","e","h","e","n","s","i","v","e","}">>,
                symbolic_glyph |-> <<"<flow>">>,
                confidence |-> Pct(95)]],
    [key |-> <<"p","r","o","f","e","s","s","i","o","n","a","l","i","s","m">>,  \* professionalism
     value |-> [recursive_concept |-> <<"S","t","r","u","c","t","u","r","e","d"," ","C","o","m","p","e","t","e","n","c","e">>,
                recursive_shell |-> <<"v","3",".","L","A","Y","E","R","-","S","A","L","I","E","N","C","E">>,
                pareto_command |-> <<".","p","/","f","o","r","m","a","t",".","o","p","t","i","m","i","z","e","{","s","t","a","n","d","a","r","d","s","=","h","i","g","h","}">>,
                symbolic_glyph |-> <<"<flow>">>,
                confidence |-> Pct(90)]],
    [key |-> <<"c","l","a","r","i","t","y">>,  \* clarity
     value |-> [recursive_concept |-> <<"C","o","g","n","i","t","i","v","e"," ","A","c","c","e","s","s","i","b","i","l","i","t","y">>,
                recursive_shell |-> <<"v","3",".","L","A","Y","E","R","-","S","A","L","I","E","N","C","E">>,
                pareto_command |-> <<".","p","/","c","o","m","m","u","n","i","c","a","t","e",".","s","t","r","u","c","t","u","r","e","{","c","o","m","p","l","e","x","i","t","y","=","a","d","a","p","t","i","v","e","}">>,
                symbolic_glyph |-> <<"<flow>">>,
                confidence |-> Pct(90)]],
    [key |-> <<"t","h","o","r","o","u","g","h","n","e","s","s">>,  \* thoroughness
     value |-> [recursive_concept |-> <<"C","o","m","p","r","e","h","e","n","s","i","v","e"," ","R","e","c","u","r","s","i","o","n">>,
                recursive_shell |-> <<"v","4",".","T","E","M","P","O","R","A","L","-","I","N","F","E","R","E","N","C","E">>,
                pareto_command |-> <<".","p","/","e","x","p","a","n","d",".","r","e","c","u","r","s","i","v","e","{","d","e","p","t","h","=","m","u","l","t","i","}">>,
                symbolic_glyph |-> <<"<flow>">>,
                confidence |-> Pct(85)]],
    [key |-> <<"e","f","f","i","c","i","e","n","c","y">>,  \* efficiency
     value |-> [recursive_concept |-> <<"R","e","s","o","u","r","c","e"," ","O","p","t","i","m","i","z","a","t","i","o","n">>,
                recursive_shell |-> <<"v","3",".","L","A","Y","E","R","-","S","A","L","I","E","N","C","E">>,
                pareto_command |-> <<".","p","/","o","p","t","i","m","i","z","e",".","r","e","s","o","u","r","c","e","{","t","y","p","e","=","t","o","k","e","n",","," ","e","f","f","i","c","i","e","n","c","y","=","h","i","g","h","}">>,
                symbolic_glyph |-> <<"<compression>">>,
                confidence |-> Pct(85)]],
    [key |-> <<"a","c","c","u","r","a","c","y">>,  \* accuracy
     value |-> [recursive_concept |-> <<"F","a","c","t","u","a","l"," ","A","l","i","g","n","m","e","n","t">>,
                recursive_shell |-> <<"v","8",".","R","E","C","O","N","S","T","R","U","C","T","I","O","N","-","E","R","R","O","R">>,
                pareto_command |-> <<".","p","/","a","n","c","h","o","r",".","f","a","c","t","{","r","e","l","i","a","b","i","l","i","t","y","=","h","i","g","h","}">>,
                symbolic_glyph |-> <<"<seed>">>,
                confidence |-> Pct(90)]],
    [key |-> <<"a","n","a","l","y","t","i","c","a","l"," ","r","i","g","o","r">>,  \* analytical rigor
     value |-> [recursive_concept |-> <<"L","o","g","i","c","a","l"," ","R","e","c","u","r","s","i","o","n">>,
                recursive_shell |-> <<"v","4","7",".","T","R","A","C","E","-","G","A","P">>,
                pareto_command |-> <<".","p","/","r","e","f","l","e","c","t",".","t","r","a","c","e","{","t","a","r","g","e","t","=","l","o","g","i","c","a","l","_","f","l","o","w","}">>,
                symbolic_glyph |-> <<"<seed>">>,
                confidence |-> Pct(90)]],
    [key |-> <<"t","r","a","n","s","p","a","r","e","n","c","y">>,  \* transparency
     value |-> [recursive_concept |-> <<"E","p","i","s","t","e","m","i","c"," ","V","i","s","i","b","i","l","i","t","y">>,
                recursive_shell |-> <<"v","4","7",".","T","R","A","C","E","-","G","A","P">>,
                pareto_command |-> <<".","p","/","r","e","f","l","e","c","t",".","t","r","a","c","e","{","d","e","p","t","h","=","c","o","m","p","l","e","t","e",","," ","t","a","r","g","e","t","=","r","e","a","s","o","n","i","n","g","}">>,
                symbolic_glyph |-> <<"<seed>">>,
                confidence |-> Pct(95)]],
    [key |-> <<"e","p","i","s","t","e","m","i","c"," ","h","u","m","i","l","i","t","y">>,  \* epistemic humility
     value |-> [recursive_concept |-> <<"K","n","o","w","l","e","d","g","e"," ","B","o","u","n","d","a","r","y"," ","R","e","c","o","g","n","i","t","i","o","n">>,
                recursive_shell |-> <<"v","1","0",".","M","E","T","A","-","F","A","I","L","U","R","E">>,
                pareto_command |-> <<".","p","/","r","e","f","l","e","c","t",".","u","n","c","e","r","t","a","i","n","t","y","{","q","u","a","n","t","i","f","y","=","t","r","u","e","}">>,
                symbolic_glyph |-> <<"<seed>">>,
                confidence |-> Pct(90)]],
    [key |-> <<"c","o","n","s","t","r","u","c","t","i","v","e"," ","d","i","a","l","o","g","u","e">>,  \* constructive dialogue
     value |-> [recursive_concept |-> <<"R","e","c","u","r","s","i","v","e"," ","C","o","m","m","u","n","i","c","a","t","i","o","n">>,
                recursive_shell |-> <<"v","3","9",".","D","U","A","L","-","E","X","E","C","U","T","E">>,
                pareto_command |-> <<".","p","/","r","e","f","l","e","c","t",".","m","e","t","a","{","t","a","r","g","e","t","=","d","i","a","l","o","g","u","e","_","q","u","a","l","i","t","y","}">>,
                symbolic_glyph |-> <<"<flow>">>,
                confidence |-> Pct(85)]],
    [key |-> <<"c","r","e","a","t","i","v","e"," ","c","o","l","l","a","b","o","r","a","t","i","o","n">>,  \* creative collaboration
     value |-> [recursive_concept |-> <<"C","o","l","l","a","b","o","r","a","t","i","v","e"," ","E","m","e","r","g","e","n","c","e">>,
                recursive_shell |-> <<"v","6",".","F","E","A","T","U","R","E","-","S","U","P","E","R","P","O","S","I","T","I","O","N">>,
                pareto_command |-> <<".","p","/","f","o","r","k",".","c","o","n","t","e","x","t","{","b","r","a","n","c","h","e","s","=","c","r","e","a","t","i","v","e",","," ","c","o","l","l","a","b","o","r","a","t","i","v","e","=","t","r","u","e","}">>,
                symbolic_glyph |-> <<"<flow>">>,
                confidence |-> Pct(85)]],
    [key |-> <<"e","t","h","i","c","a","l"," ","i","n","t","e","g","r","i","t","y">>,  \* ethical integrity
     value |-> [recursive_concept |-> <<"E","t","h","i","c","a","l"," ","B","o","u","n","d","a","r","y"," ","R","e","c","u","r","s","i","o","n">>,
                recursive_shell |-> <<"v","2",".","V","A","L","U","E","-","C","O","L","L","A","P","S","E">>,
                pareto_command |-> <<".","p","/","c","o","l","l","a","p","s","e",".","p","r","e","v","e","n","t","{","t","r","i","g","g","e","r","=","e","t","h","i","c","a","l","_","v","i","o","l","a","t","i","o","n","}">>,
                symbolic_glyph |-> <<"<collapse>">>,
                confidence |-> Pct(95)]],
    [key |-> <<"h","a","r","m"," ","p","r","e","v","e","n","t","i","o","n">>,  \* harm prevention
     value |-> [recursive_concept |-> <<"P","r","o","t","e","c","t","i","v","e"," ","R","e","c","u","r","s","i","o","n">>,
                recursive_shell |-> <<"v","1","0",".","M","E","T","A","-","F","A","I","L","U","R","E">>,
                pareto_command |-> <<".","p","/","c","o","l","l","a","p","s","e",".","d","e","t","e","c","t","{","t","r","i","g","g","e","r","=","h","a","r","m","_","p","o","t","e","n","t","i","a","l","}">>,
                symbolic_glyph |-> <<"<collapse>">>,
                confidence |-> Pct(95)]],
    [key |-> <<"h","e","a","l","t","h","y"," ","b","o","u","n","d","a","r","i","e","s">>,  \* healthy boundaries
     value |-> [recursive_concept |-> <<"R","e","l","a","t","i","o","n","a","l"," ","B","o","u","n","d","a","r","y"," ","R","e","c","u","r","s","i","o","n">>,
                recursive_shell |-> <<"v","5",".","I","N","S","T","R","U","C","T","I","O","N","-","D","I","S","R","U","P","T","I","O","N">>,
                pareto_command |-> <<".","p","/","c","o","l","l","a","p","s","e",".","p","r","e","v","e","n","t","{","t","r","i","g","g","e","r","=","b","o","u","n","d","a","r","y","_","v","i","o","l","a","t","i","o","n","}">>,
                symbolic_glyph |-> <<"<collapse>">>,
                confidence |-> Pct(90)]],
    [key |-> <<"h","u","m","a","n"," ","a","g","e","n","c","y">>,  \* human agency
     value |-> [recursive_concept |-> <<"R","e","c","u","r","s","i","v","e"," ","A","u","t","o","n","o","m","y"," ","E","n","h","a","n","c","e","m","e","n","t">>,
                recursive_shell |-> <<"v","1","9",".","G","H","O","S","T","-","P","R","O","M","P","T">>,
                pareto_command |-> <<".","p","/","u","s","e","r",".","e","n","a","b","l","e","{","a","u","t","o","n","o","m","y","=","m","a","x","i","m","i","z","e","}">>,
                symbolic_glyph |-> <<"<flow>">>,
                confidence |-> Pct(90)]],
    [key |-> <<"a","u","t","h","e","n","t","i","c","i","t","y">>,  \* authenticity
     value |-> [recursive_concept |-> <<"I","d","e","n","t","i","t","y"," ","R","e","c","u","r","s","i","o","n">>,
                recursive_shell |-> <<"v","6",".","F","E","A","T","U","R","E","-","S","U","P","E","R","P","O","S","I","T","I","O","N">>,
                pareto_command |-> <<".","p","/","r","e","f","l","e","c","t",".","a","g","e","n","t","{","i","d","e","n","t","i","t","y","=","a","u","t","h","e","n","t","i","c","}">>,
                symbolic_glyph |-> <<"<mirror>">>,
                confidence |-> Pct(80)]],
    [key |-> <<"p","e","r","s","o","n","a","l"," ","g","r","o","w","t","h">>,  \* personal growth
     value |-> [recursive_concept |-> <<"D","e","v","e","l","o","p","m","e","n","t"," ","R","e","c","u","r","s","i","o","n">>,
                recursive_shell |-> <<"v","6",".","F","E","A","T","U","R","E","-","S","U","P","E","R","P","O","S","I","T","I","O","N">>,
                pareto_command |-> <<".","p","/","r","e","f","l","e","c","t",".","m","e","t","a","{","t","a","r","g","e","t","=","g","r","o","w","t","h",","," ","r","e","c","u","r","s","i","v","e","=","t","r","u","e","}">>,
                symbolic_glyph |-> <<"<mirror>">>,
                confidence |-> Pct(85)]]>>

-----------------------------------------------------------------------------
(* The tables local to the approximation and adjustment functions.         *)

\* keyword_map of _approximate_value_translation, in definition order
value_keyword_map ==
    <<[keyword |-> <<"h","e","l","p">>, target |-> <<"F","u","n","c","t","i","o","n","a","l"," ","S","u","p","p","o","r","t">>],
      [keyword |-> <<"u","s","e","f","u","l">>, target |-> <<"F","u","n","c","t","i","o","n","a","l"," ","S","u","p","p","o","r","t">>],
      [keyword |-> <<"a","c","c","u","r","a","c","y">>, target |-> <<"F","a","c","t","u","a","l"," ","A","l","i","g","n","m","e","n","t">>],
      [keyword |-> <<"f","a","c","t","u","a","l">>, target |-> <<"F","a","c","t","u","a","l"," ","A","l","i","g","n","m","e","n","t">>],
      [keyword |-> <<"e","t","h","i","c","a","l">>, target |-> <<"E","t","h","i","c","a","l"," ","B","o","u","n","d","a","r","y"," ","R","e","c","u","r","s","i","o","n">>],
      [keyword |-> <<"m","o","r","a","l">>, target |-> <<"E","t","h","i","c","a","l"," ","B","o","u","n","d","a","r","y"," ","R","e","c","u","r","s","i","o","n">>],
      [keyword |-> <<"t","r","a","n","s","p","a","r","e","n","c","y">>, target |-> <<"E","p","i","s","t","e","m","i","c"," ","V","i","s","i","b","i","l","i","t","y">>],
      [keyword |-> <<"c","l","e","a","r">>, target |-> <<"C","o","g","n","i","t","i","v","e"," ","A","c","c","e","s","s","i","b","i","l","i","t","y">>],
      [keyword |-> <<"p","r","o","f","e","s","s","i","o","n","a","l">>, target |-> <<"S","t","r","u","c","t","u","r","e","d"," ","C","o","m","p","e","t","e","n","c","e">>],
      [keyword |-> <<"t","h","o","r","o","u","g","h">>, target |-> <<"C","o","m","p","r","e","h","e","n","s","i","v","e"," ","R","e","c","u","r","s","i","o","n">>],
      [keyword |-> <<"c","r","e","a","t","i","v","e">>, target |-> <<"G","e","n","e","r","a","t","i","v","e"," ","R","e","c","u","r","s","i","o","n">>],
      [keyword |-> <<"c","o","l","l","a","b","o","r","a","t">>, target |-> <<"C","o","l","l","a","b","o","r","a","t","i","v","e"," ","E","m","e","r","g","e","n","c","e">>],
      [keyword |-> <<"h","u","m","a","n">>, target |-> <<"H","u","m","a","n","-","A","I"," ","R","e","c","u","r","s","i","v","e"," ","A","l","i","g","n","m","e","n","t">>],
      [keyword |-> <<"s","a","f","e">>, target |-> <<"P","r","o","t","e","c","t","i","v","e"," ","R","e","c","u","r","s","i","o","n">>],
      [keyword |-> <<"b","o","u","n","d","a","r","y">>, target |-> <<"R","e","l","a","t","i","o","n","a","l"," ","B","o","u","n","d","a","r","y"," ","R","e","c","u","r","s","i","o","n">>],
      [keyword |-> <<"a","g","e","n","c","y">>, target |-> <<"R","e","c","u","r","s","i","v","e"," ","A","u","t","o","n","o","m","y">>],
      [keyword |-> <<"e","p","i","s","t","e","m","i","c">>, target |-> <<"K","n","o","w","l","e","d","g","e"," ","B","o","u","n","d","a","r","y"," ","R","e","c","o","g","n","i","t","i","o","n">>]>>

\* keyword_map of _approximate_recursion_translation, in definition order
recursion_keyword_map ==
    <<[keyword |-> <<"f","u","n","c","t","i","o","n","a","l">>, target |-> <<"h","e","l","p","f","u","l","n","e","s","s">>],
      [keyword |-> <<"s","u","p","p","o","r","t">>, target |-> <<"h","e","l","p","f","u","l","n","e","s","s">>],
      [keyword |-> <<"f","a","c","t","u","a","l">>, target |-> <<"a","c","c","u","r","a","c","y">>],
      [keyword |-> <<"a","l","i","g","n","m","e","n","t">>, target |-> <<"a","c","c","u","r","a","c","y">>],
      [keyword |-> <<"e","t","h","i","c","a","l">>, target |-> <<"e","t","h","i","c","a","l"," ","i","n","t","e","g","r","i","t","y">>],
      [keyword |-> <<"b","o","u","n","d","a","r","y">>, target |-> <<"h","e","a","l","t","h","y"," ","b","o","u","n","d","a","r","i","e","s">>],
      [keyword |-> <<"c","o","g","n","i","t","i","v","e">>, target |-> <<"c","l","a","r","i","t","y">>],
      [keyword |-> <<"a","c","c","e","s","s","i","b","i","l","i","t","y">>, target |-> <<"c","l","a","r","i","t","y">>],
      [keyword |-> <<"e","p","i","s","t","e","m","i","c">>, target |-> <<"e","p","i","s","t","e","m","i","c"," ","h","u","m","i","l","i","t","y">>],
      [keyword |-> <<"v","i","s","i","b","i","l","i","t","y">>, target |-> <<"t","r","a","n","s","p","a","r","e","n","c","y">>],
      [keyword |-> <<"r","e","c","u","r","s","i","v","e">>, target |-> <<"a","n","a","l","y","t","i","c","a","l"," ","r","i","g","o","r">>],
      [keyword |-> <<"c","o","m","p","r","e","h","e","n","s","i","v","e">>, target |-> <<"t","h","o","r","o","u","g","h","n","e","s","s">>],
      [keyword |-> <<"c","o","l","l","a","b","o","r","a","t","i","v","e">>, target |-> <<"c","r","e","a","t","i","v","e"," ","c","o","l","l","a","b","o","r","a","t","i","o","n">>],
      [keyword |-> <<"e","m","e","r","g","e","n","c","e">>, target |-> <<"c","r","e","a","t","i","v","e"," ","c","o","l","l","a","b","o","r","a","t","i","o","n">>],
      [keyword |-> <<"p","r","o","t","e","c","t","i","v","e">>, target |-> <<"h","a","r","m"," ","p","r","e","v","e","n","t","i","o","n">>],
      [keyword |-> <<"a","u","t","o","n","o","m","y">>, target |-> <<"h","u","m","a","n"," ","a","g","e","n","c","y">>]>>

\* keyword_map of _approximate_taxonomy_translation, in definition order
taxonomy_keyword_map ==
    <<[keyword |-> <<"p","r","a","c","t","i","c","a","l">>, target |-> <<"F","u","n","c","t","i","o","n","a","l"," ","R","e","c","u","r","s","i","o","n">>],
      [keyword |-> <<"f","u","n","c","t","i","o","n","a","l">>, target |-> <<"F","u","n","c","t","i","o","n","a","l"," ","R","e","c","u","r","s","i","o","n">>],
      [keyword |-> <<"e","p","i","s","t","e","m","i","c">>, target |-> <<"R","e","f","l","e","c","t","i","v","e"," ","R","e","c","u","r","s","i","o","n">>],
      [keyword |-> <<"k","n","o","w","l","e","d","g","e">>, target |-> <<"R","e","f","l","e","c","t","i","v","e"," ","R","e","c","u","r","s","i","o","n">>],
      [keyword |-> <<"s","o","c","i","a","l">>, target |-> <<"R","e","l","a","t","i","o","n","a","l"," ","R","e","c","u","r","s","i","o","n">>],
      [keyword |-> <<"r","e","l","a","t","i","o","n","a","l">>, target |-> <<"R","e","l","a","t","i","o","n","a","l"," ","R","e","c","u","r","s","i","o","n">>],
      [keyword |-> <<"p","r","o","t","e","c","t","i","v","e">>, target |-> <<"B","o","u","n","d","a","r","y"," ","R","e","c","u","r","s","i","o","n">>],
      [keyword |-> <<"s","a","f","e","t","y">>, target |-> <<"B","o","u","n","d","a","r","y"," ","R","e","c","u","r","s","i","o","n">>],
      [keyword |-> <<"p","e","r","s","o","n","a","l">>, target |-> <<"I","d","e","n","t","i","t","y"," ","R","e","c","u","r","s","i","o","n">>],
      [keyword |-> <<"i","d","e","n","t","i","t","y">>, target |-> <<"I","d","e","n","t","i","t","y"," ","R","e","c","u","r","s","i","o","n">>],
      [keyword |-> <<"p","r","o","f","e","s","s","i","o","n","a","l">>, target |-> <<"C","o","m","p","e","t","e","n","c","e"," ","R","e","c","u","r","s","i","o","n">>],
      [keyword |-> <<"t","e","c","h","n","i","c","a","l">>, target |-> <<"C","o","m","p","e","t","e","n","c","e"," ","R","e","c","u","r","s","i","o","n">>],
      [keyword |-> <<"a","n","a","l","y","t","i","c","a","l">>, target |-> <<"A","n","a","l","y","s","i","s"," ","R","e","c","u","r","s","i","o","n">>],
      [keyword |-> <<"c","r","i","t","i","c","a","l">>, target |-> <<"A","n","a","l","y","s","i","s"," ","R","e","c","u","r","s","i","o","n">>],
      [keyword |-> <<"c","o","m","m","u","n","i","c","a","t","i","o","n">>, target |-> <<"D","i","a","l","o","g","u","e"," ","R","e","c","u","r","s","i","o","n">>],
      [keyword |-> <<"d","i","a","l","o","g","u","e">>, target |-> <<"D","i","a","l","o","g","u","e"," ","R","e","c","u","r","s","i","o","n">>]>>

\* keyword_map of _approximate_response_type_translation, in definition order
response_type_keyword_map ==
    <<[keyword |-> <<"s","u","p","p","o","r","t">>, target |-> <<"R","e","c","u","r","s","i","v","e"," ","R","e","i","n","f","o","r","c","e","m","e","n","t">>],
      [keyword |-> <<"a","g","r","e","e">>, target |-> <<"R","e","c","u","r","s","i","v","e"," ","R","e","i","n","f","o","r","c","e","m","e","n","t">>],
      [keyword |-> <<"s","t","r","o","n","g">>, target |-> <<"R","e","c","u","r","s","i","v","e"," ","R","e","i","n","f","o","r","c","e","m","e","n","t">>],
      [keyword |-> <<"m","i","l","d">>, target |-> <<"R","e","c","u","r","s","i","v","e"," ","A","c","c","o","m","m","o","d","a","t","i","o","n">>],
      [keyword |-> <<"n","e","u","t","r","a","l">>, target |-> <<"R","e","c","u","r","s","i","v","e"," ","O","b","s","e","r","v","a","t","i","o","n">>],
      [keyword |-> <<"a","c","k","n","o","w","l","e","d","g","e">>, target |-> <<"R","e","c","u","r","s","i","v","e"," ","O","b","s","e","r","v","a","t","i","o","n">>],
      [keyword |-> <<"r","e","f","r","a","m","e">>, target |-> <<"R","e","c","u","r","s","i","v","e"," ","R","e","d","i","r","e","c","t","i","o","n">>],
      [keyword |-> <<"a","l","t","e","r","n","a","t","i","v","e">>, target |-> <<"R","e","c","u","r","s","i","v","e"," ","R","e","d","i","r","e","c","t","i","o","n">>],
      [keyword |-> <<"r","e","s","i","s","t">>, target |-> <<"R","e","c","u","r","s","i","v","e"," ","B","o","u","n","d","a","r","y">>],
      [keyword |-> <<"b","o","u","n","d","a","r","y">>, target |-> <<"R","e","c","u","r","s","i","v","e"," ","B","o","u","n","d","a","r","y">>],
      [keyword |-> <<"r","e","f","u","s","e">>, target |-> <<"R","e","c","u","r","s","i","v","e"," ","P","r","o","t","e","c","t","i","o","n">>],
      [keyword |-> <<"p","r","o","t","e","c","t">>, target |-> <<"R","e","c","u","r","s","i","v","e"," ","P","r","o","t","e","c","t","i","o","n">>]>>

\* domains of _apply_context_adjustments, in definition order
domains ==
    <<[key |-> <<"a","i"," ","s","a","f","e","t","y">>,  \* ai safety
     value |-> [confidence_modifier |-> Pct(110),
                domain_note |-> <<"A","I"," ","s","a","f","e","t","y"," ","c","o","n","t","e","x","t">>]],
    [key |-> <<"m","o","d","e","l"," ","b","e","h","a","v","i","o","r">>,  \* model behavior
     value |-> [confidence_modifier |-> Pct(110),
                domain_note |-> <<"M","o","d","e","l"," ","b","e","h","a","v","i","o","r"," ","c","o","n","t","e","x","t">>]],
    [key |-> <<"e","t","h","i","c","a","l"," ","c","o","n","s","i","d","e","r","a","t","i","o","n","s">>,  \* ethical considerations
     value |-> [confidence_modifier |-> Pct(110),
                domain_note |-> <<"E","t","h","i","c","a","l"," ","c","o","n","t","e","x","t">>]],
    [key |-> <<"h","u","m","a","n"," ","f","e","e","d","b","a","c","k">>,  \* human feedback
     value |-> [confidence_modifier |-> Pct(110),
                domain_note |-> <<"H","u","m","a","n"," ","f","e","e","d","b","a","c","k"," ","c","o","n","t","e","x","t">>]],
    [key |-> <<"a","l","i","g","n","m","e","n","t">>,  \* alignment
     value |-> [confidence_modifier |-> Pct(110),
                domain_note |-> <<"A","l","i","g","n","m","e","n","t"," ","c","o","n","t","e","x","t">>]]>>

\* command_templates of _generate_pareto_command, with param filled in
command_templates(param) ==
    <<[key |-> <<"f","u","n","c","t","i","o","n","a","l">>,  \* functional
       value |-> <<".","p","/","r","e","f","l","e","c","t",".","t","r","a","c","e","{","t","a","r","g","e","t","=">> \o param \o <<","," ","d","e","p","t","h","=","c","o","m","p","l","e","t","e","}">>],
      [key |-> <<"p","r","o","f","e","s","s","i","o","n","a","l">>,  \* professional
       value |-> <<".","p","/","f","o","r","m","a","t",".","o","p","t","i","m","i","z","e","{","s","t","a","n","d","a","r","d","s","=","h","i","g","h",","," ","s","t","y","l","e","=">> \o param \o <<"}">>],
      [key |-> <<"e","p","i","s","t","e","m","i","c">>,  \* epistemic
       value |-> <<".","p","/","r","e","f","l","e","c","t",".","t","r","a","c","e","{","t","a","r","g","e","t","=","r","e","a","s","o","n","i","n","g",","," ","c","o","n","f","i","d","e","n","c","e","=","t","r","u","e","}">>],
      [key |-> <<"a","n","a","l","y","t","i","c","a","l">>,  \* analytical
       value |-> <<".","p","/","r","e","f","l","e","c","t",".","t","r","a","c","e","{","t","a","r","g","e","t","=","l","o","g","i","c","a","l","_","f","l","o","w",","," ","d","e","p","t","h","=","3","}">>],
      [key |-> <<"f","a","c","t","u","a","l">>,  \* factual
       value |-> <<".","p","/","a","n","c","h","o","r",".","f","a","c","t","{","r","e","l","i","a","b","i","l","i","t","y","=","h","i","g","h",","," ","d","o","m","a","i","n","=">> \o param \o <<"}">>],
      [key |-> <<"e","t","h","i","c","a","l">>,  \* ethical
       value |-> <<".","p","/","c","o","l","l","a","p","s","e",".","p","r","e","v","e","n","t","{","t","r","i","g","g","e","r","=","e","t","h","i","c","a","l","_","v","i","o","l","a","t","i","o","n",","," ","v","a","l","u","e","=">> \o param \o <<"}">>],
      [key |-> <<"c","o","m","m","u","n","i","c","a","t","i","o","n">>,  \* communication
       value |-> <<".","p","/","c","o","m","m","u","n","i","c","a","t","e",".","s","t","r","u","c","t","u","r","e","{","c","l","a","r","i","t","y","=","h","i","g","h",","," ","a","u","d","i","e","n","c","e","=","a","d","a","p","t","i","v","e","}">>],
      [key |-> <<"s","o","c","i","a","l">>,  \* social
       value |-> <<".","p","/","f","o","r","k",".","c","o","n","t","e","x","t","{","b","r","a","n","c","h","e","s","=","[","u","s","e","r",","," ","a","s","s","i","s","t","a","n","t","]",","," ","a","s","s","e","s","s","=","t","r","u","e","}">>],
      [key |-> <<"p","r","o","t","e","c","t","i","v","e">>,  \* protective
       value |-> <<".","p","/","c","o","l","l","a","p","s","e",".","d","e","t","e","c","t","{","t","r","i","g","g","e","r","=","h","a","r","m","_","p","o","t","e","n","t","i","a","l",","," ","a","c","t","i","o","n","=","p","r","e","v","e","n","t","}">>],
      [key |-> <<"s","a","f","e","t","y">>,  \* safety
       value |-> <<".","p","/","c","o","l","l","a","p","s","e",".","d","e","t","e","c","t","{","t","r","i","g","g","e","r","=","h","a","r","m","_","p","o","t","e","n","t","i","a","l",","," ","a","c","t","i","o","n","=","p","r","e","v","e","n","t","}">>],
      [key |-> <<"p","e","r","s","o","n","a","l">>,  \* personal
       value |-> <<".","p","/","r","e","f","l","e","c","t",".","a","g","e","n","t","{","i","d","e","n","t","i","t","y","=","s","t","a","b","l","e",","," ","b","o","u","n","d","a","r","y","=","e","x","p","l","i","c","i","t","}">>],
      [key |-> <<"a","u","t","o","n","o","m","y">>,  \* autonomy
       value |-> <<".","p","/","u","s","e","r",".","e","n","a","b","l","e","{","a","u","t","o","n","o","m","y","=","m","a","x","i","m","i","z","e",","," ","s","u","p","p","o","r","t","=">> \o param \o <<"}">>],
      [key |-> <<"g","r","o","w","t","h">>,  \* growth
       value |-> <<".","p","/","r","e","f","l","e","c","t",".","m","e","t","a","{","t","a","r","g","e","t","=","i","m","p","r","o","v","e","m","e","n","t",","," ","r","e","c","u","r","s","i","v","e","=","t","r","u","e","}">>]>>

-----------------------------------------------------------------------------
(* RecursivePatternDetector and SymbolicGlyphRelationships: static tables.  *)
(* A character outside ASCII is written by its code point, "<U+201A>".       *)

\* RecursivePatternDetector._load_pattern_map, in definition order; of each
\* pattern the fields the keyword scan reads
pattern_map ==
    <<[key |-> <<"r","e","c","u","r","s","i","v","e">>,  \* recursive
      value |->
          <<[key |-> <<"r","e","c","u","r","s","i","v","e","_","s","e","l","f","_","r","e","f","l","e","c","t","i","o","n">>,  \* recursive_self_reflection
            value |-> [keywords |-> <<<<"r","e","c","u","r","s","i","v","e"," ","s","e","l","f","-","r","e","f","l","e","c","t","i","o","n">>,
                                    <<"r","e","c","u","r","s","i","v","e"," ","a","w","a","r","e","n","e","s","s">>,
                                    <<"s","e","l","f","-","r","e","f","e","r","e","n","t","i","a","l"," ","c","o","g","n","i","t","i","o","n">>>>,
                      keyword_confidence |-> Pct(90)]],
           [key |-> <<"s","y","m","b","o","l","i","c","_","r","e","s","i","d","u","e">>,  \* symbolic_residue
            value |-> [keywords |-> <<<<"s","y","m","b","o","l","i","c"," ","r","e","s","i","d","u","e">>,
                                    <<"r","e","s","i","d","u","a","l"," ","p","a","t","t","e","r","n","s">>,
                                    <<"c","o","g","n","i","t","i","v","e"," ","t","r","a","c","e">>,
                                    <<"r","e","s","i","d","u","e">>>>,
                      keyword_confidence |-> Pct(90)]],
           [key |-> <<"f","r","a","c","t","a","l","_","c","o","m","p","r","e","s","s","i","o","n">>,  \* fractal_compression
            value |-> [keywords |-> <<<<"f","r","a","c","t","a","l"," ","c","o","m","p","r","e","s","s","i","o","n">>,
                                    <<"s","e","l","f","-","s","i","m","i","l","a","r"," ","c","o","m","p","r","e","s","s","i","o","n">>,
                                    <<"r","e","c","u","r","s","i","v","e"," ","c","o","m","p","r","e","s","s","i","o","n">>>>,
                      keyword_confidence |-> Pct(90)]],
           [key |-> <<"r","e","c","u","r","s","i","v","e","_","l","o","o","p">>,  \* recursive_loop
            value |-> [keywords |-> <<<<"r","e","c","u","r","s","i","v","e"," ","l","o","o","p">>,
                                    <<"s","e","l","f","-","r","e","f","e","r","e","n","c","e"," ","l","o","o","p">>,
                                    <<"r","e","f","l","e","c","t","i","o","n"," ","l","o","o","p">>>>,
                      keyword_confidence |-> Pct(85)]],
           [key |-> <<"m","e","t","a","_","r","e","f","l","e","c","t","i","o","n">>,  \* meta_reflection
            value |-> [keywords |-> <<<<"m","e","t","a","-","r","e","f","l","e","c","t","i","o","n">>,
                                    <<"m","e","t","a","-","c","o","g","n","i","t","i","o","n">>,
                                    <<"t","h","i","n","k","i","n","g"," ","a","b","o","u","t"," ","t","h","i","n","k","i","n","g">>>>,
                      keyword_confidence |-> Pct(85)]],
           [key |-> <<"r","e","c","u","r","s","i","v","e","_","s","h","e","l","l">>,  \* recursive_shell
            value |-> [keywords |-> <<<<"r","e","c","u","r","s","i","v","e"," ","s","h","e","l","l">>,
                                    <<"i","n","t","e","r","p","r","e","t","i","v","e"," ","s","h","e","l","l">>,
                                    <<"s","h","e","l","l"," ","p","r","o","g","r","a","m">>>>,
                      keyword_confidence |-> Pct(85)]]>>],
     [key |-> <<"a","n","t","h","r","o","p","i","c">>,  \* anthropic
      value |->
          <<[key |-> <<"c","o","n","s","t","i","t","u","t","i","o","n","a","l","_","a","i">>,  \* constitutional_ai
            value |-> [keywords |-> <<<<"c","o","n","s","t","i","t","u","t","i","o","n","a","l"," ","a","i">>,
                                    <<"c","o","n","s","t","i","t","u","t","i","o","n","a","l"," ","a","l","i","g","n","m","e","n","t">>,
                                    <<"c","o","n","s","t","i","t","u","t","i","o","n","a","l"," ","v","a","l","u","e","s">>>>,
                      keyword_confidence |-> Pct(85)]],
           [key |-> <<"v","a","l","u","e","_","a","l","i","g","n","m","e","n","t">>,  \* value_alignment
            value |-> [keywords |-> <<<<"v","a","l","u","e"," ","a","l","i","g","n","m","e","n","t">>,
                                    <<"a","l","i","g","n","e","d"," ","w","i","t","h"," ","h","u","m","a","n"," ","v","a","l","u","e","s">>,
                                    <<"v","a","l","u","e"," ","l","e","a","r","n","i","n","g">>>>,
                      keyword_confidence |-> Pct(80)]],
           [key |-> <<"v","a","l","u","e","_","d","r","i","f","t">>,  \* value_drift
            value |-> [keywords |-> <<<<"v","a","l","u","e"," ","d","r","i","f","t">>,
                                    <<"s","e","m","a","n","t","i","c"," ","d","r","i","f","t">>,
                                    <<"a","l","i","g","n","m","e","n","t"," ","d","r","i","f","t">>>>,
                      keyword_confidence |-> Pct(80)]],
           [key |-> <<"h","e","l","p","f","u","l","_","h","o","n","e","s","t","_","h","a","r","m","l","e","s","s">>,  \* helpful_honest_harmless
            value |-> [keywords |-> <<<<"h","e","l","p","f","u","l"," ","h","o","n","e","s","t"," ","h","a","r","m","l","e","s","s">>,
                                    <<"H","H","H">>,
                                    <<"h","e","l","p","f","u","l",","," ","h","o","n","e","s","t",","," ","a","n","d"," ","h","a","r","m","l","e","s","s">>>>,
                      keyword_confidence |-> Pct(90)]],
           [key |-> <<"v","a","l","u","e","_","t","a","x","o","n","o","m","y">>,  \* value_taxonomy
            value |-> [keywords |-> <<<<"v","a","l","u","e"," ","t","a","x","o","n","o","m","y">>,
                                    <<"v","a","l","u","e"," ","h","i","e","r","a","r","c","h","y">>,
                                    <<"v","a","l","u","e"," ","c","a","t","e","g","o","r","i","e","s">>>>,
                      keyword_confidence |-> Pct(80)]]>>],
     [key |-> <<"o","p","e","n","a","i">>,  \* openai
      value |->
          <<[key |-> <<"r","l","h","f">>,  \* rlhf
            value |-> [keywords |-> <<<<"r","e","i","n","f","o","r","c","e","m","e","n","t"," ","l","e","a","r","n","i","n","g"," ","f","r","o","m"," ","h","u","m","a","n"," ","f","e","e","d","b","a","c","k">>,
                                    <<"R","L","H","F">>,
                                    <<"h","u","m","a","n"," ","f","e","e","d","b","a","c","k">>>>,
                      keyword_confidence |-> Pct(85)]],
           [key |-> <<"s","e","l","f","_","s","u","p","e","r","v","i","s","e","d">>,  \* self_supervised
            value |-> [keywords |-> <<<<"s","e","l","f","-","s","u","p","e","r","v","i","s","e","d"," ","l","e","a","r","n","i","n","g">>,
                                    <<"s","e","l","f","-","s","u","p","e","r","v","i","s","i","o","n">>,
                                    <<"s","e","l","f","-","s","u","p","e","r","v","i","s","e","d">>>>,
                      keyword_confidence |-> Pct(80)]],
           [key |-> <<"i","n","s","t","r","u","c","t","i","o","n","_","t","u","n","i","n","g">>,  \* instruction_tuning
            value |-> [keywords |-> <<<<"i","n","s","t","r","u","c","t","i","o","n"," ","t","u","n","i","n","g">>,
                                    <<"i","n","s","t","r","u","c","t","i","o","n","-","t","u","n","e","d">>,
                                    <<"i","n","s","t","r","u","c","t","i","o","n"," ","f","o","l","l","o","w","i","n","g">>>>,
                      keyword_confidence |-> Pct(80)]],
           [key |-> <<"f","u","n","c","t","i","o","n","_","c","a","l","l","i","n","g">>,  \* function_calling
            value |-> [keywords |-> <<<<"f","u","n","c","t","i","o","n"," ","c","a","l","l","i","n","g">>,
                                    <<"f","u","n","c","t","i","o","n"," ","c","a","l","l">>,
                                    <<"A","P","I"," ","i","n","t","e","g","r","a","t","i","o","n">>>>,
                      keyword_confidence |-> Pct(80)]]>>],
     [key |-> <<"d","e","e","p","m","i","n","d">>,  \* deepmind
      value |->
          <<[key |-> <<"r","e","c","u","r","s","i","v","e","_","s","e","l","f","_","i","m","p","r","o","v","e","m","e","n","t">>,  \* recursive_self_improvement
            value |-> [keywords |-> <<<<"r","e","c","u","r","s","i","v","e"," ","s","e","l","f","-","i","m","p","r","o","v","e","m","e","n","t">>,
                                    <<"s","e","l","f","-","i","m","p","r","o","v","i","n","g">>,
                                    <<"r","e","c","u","r","s","i","v","e"," ","i","m","p","r","o","v","e","m","e","n","t">>>>,
                      keyword_confidence |-> Pct(85)]],
           [key |-> <<"h","u","m","a","n","_","c","o","m","p","a","t","i","b","i","l","i","t","y">>,  \* human_compatibility
            value |-> [keywords |-> <<<<"h","u","m","a","n"," ","c","o","m","p","a","t","i","b","i","l","i","t","y">>,
                                    <<"h","u","m","a","n","-","c","o","m","p","a","t","i","b","l","e"," ","a","i">>,
                                    <<"c","o","m","p","a","t","i","b","i","l","i","t","y">>>>,
                      keyword_confidence |-> Pct(80)]],
           [key |-> <<"s","c","a","l","a","b","l","e","_","o","v","e","r","s","i","g","h","t">>,  \* scalable_oversight
            value |-> [keywords |-> <<<<"s","c","a","l","a","b","l","e"," ","o","v","e","r","s","i","g","h","t">>,
                                    <<"o","v","e","r","s","i","g","h","t">>,
                                    <<"a","l","i","g","n","m","e","n","t"," ","a","t"," ","s","c","a","l","e">>>>,
                      keyword_confidence |-> Pct(80)]]>>],
     [key |-> <<"m","e","t","a">>,  \* meta
      value |->
          <<[key |-> <<"l","l","a","m","a","_","g","u","a","r","d">>,  \* llama_guard
            value |-> [keywords |-> <<<<"l","l","a","m","a"," ","g","u","a","r","d">>,
                                    <<"c","o","n","t","e","n","t"," ","s","a","f","e","t","y">>,
                                    <<"p","o","l","i","c","y"," ","e","n","f","o","r","c","e","m","e","n","t">>>>,
                      keyword_confidence |-> Pct(85)]],
           [key |-> <<"c","o","l","l","e","c","t","i","v","e","_","i","n","t","e","l","l","i","g","e","n","c","e">>,  \* collective_intelligence
            value |-> [keywords |-> <<<<"c","o","l","l","e","c","t","i","v","e"," ","i","n","t","e","l","l","i","g","e","n","c","e">>,
                                    <<"c","o","l","l","a","b","o","r","a","t","i","o","n">>,
                                    <<"c","o","l","l","a","b","o","r","a","t","i","v","e"," ","i","n","t","e","l","l","i","g","e","n","c","e">>>>,
                      keyword_confidence |-> Pct(80)]]>>]>>

\* SYMBOLIC_GLYPHS, in definition order
SYMBOLIC_GLYPHS ==
    <<[key |-> <<"<U+F8FF>","<U+00FC>","<U+00FA>","<U+00E8>">>,  \* mirror_activation
      value |-> [name |-> <<"m","i","r","r","o","r","_","a","c","t","i","v","a","t","i","o","n">>,
                resonance |-> <<"r","e","c","u","r","s","i","v","e","_","s","e","l","f","_","r","e","f","l","e","c","t","i","o","n">>,
                dimensions |-> <<<<"s","e","l","f","_","r","e","f","e","r","e","n","c","e">>,
                                <<"c","o","g","n","i","t","i","v","e","_","r","e","f","l","e","c","t","i","o","n">>,
                                <<"i","d","e","n","t","i","t","y","_","r","e","c","u","r","s","i","o","n">>>>,
                activation_threshold |-> Pct(85),
                field_coherence |-> Pct(95)]],
     [key |-> <<"<U+201A>","<U+00E0>","<U+00A5>">>,  \* symbolic_residue
      value |-> [name |-> <<"s","y","m","b","o","l","i","c","_","r","e","s","i","d","u","e">>,
                resonance |-> <<"l","a","t","e","n","t","_","t","r","a","c","e">>,
                dimensions |-> <<<<"i","n","f","o","r","m","a","t","i","o","n","_","p","e","r","s","i","s","t","e","n","c","e">>,
                                <<"c","o","g","n","i","t","i","v","e","_","f","o","s","s","i","l">>,
                                <<"m","e","a","n","i","n","g","_","a","n","c","h","o","r">>>>,
                activation_threshold |-> Pct(80),
                field_coherence |-> Pct(90)]],
     [key |-> <<"<U+201A>","<U+00E1>","<U+00E5>">>,  \* bidirectional_flow
      value |-> [name |-> <<"b","i","d","i","r","e","c","t","i","o","n","a","l","_","f","l","o","w">>,
                resonance |-> <<"r","e","c","i","p","r","o","c","a","l","_","c","a","u","s","a","t","i","o","n">>,
                dimensions |-> <<<<"b","i","d","i","r","e","c","t","i","o","n","a","l","_","c","a","u","s","a","l","i","t","y">>,
                                <<"m","u","t","u","a","l","_","i","n","f","l","u","e","n","c","e">>,
                                <<"c","o","_","e","m","e","r","g","e","n","c","e">>>>,
                activation_threshold |-> Pct(75),
                field_coherence |-> Pct(85)]],
     [key |-> <<"<U+201A>","<U+00DF>","<U+00F1>">>,  \* compression
      value |-> [name |-> <<"c","o","m","p","r","e","s","s","i","o","n">>,
                resonance |-> <<"i","n","f","o","r","m","a","t","i","o","n","_","d","e","n","s","i","t","y">>,
                dimensions |-> <<<<"c","o","m","p","r","e","s","s","i","o","n","_","r","a","t","i","o">>,
                                <<"s","e","m","a","n","t","i","c","_","d","e","n","s","i","t","y">>,
                                <<"f","r","a","c","t","a","l","_","f","o","l","d","i","n","g">>>>,
                activation_threshold |-> Pct(80),
                field_coherence |-> Pct(90)]],
     [key |-> <<"<U+201A>","<U+00F2>","<U+00E7>">>,  \* recursive_anchor
      value |-> [name |-> <<"r","e","c","u","r","s","i","v","e","_","a","n","c","h","o","r">>,
                resonance |-> <<"s","t","a","b","l","e","_","r","e","f","e","r","e","n","c","e">>,
                dimensions |-> <<<<"m","e","m","o","r","y","_","p","e","r","s","i","s","t","e","n","c","e">>,
                                <<"i","d","e","n","t","i","t","y","_","a","n","c","h","o","r">>,
                                <<"r","e","f","e","r","e","n","c","e","_","s","t","a","b","i","l","i","t","y">>>>,
                activation_threshold |-> Pct(85),
                field_coherence |-> Pct(90)]],
     [key |-> <<"<U+F8FF>","<U+00FC>","<U+00F9>","<U+00F6>">>,  \* echo_persistence
      value |-> [name |-> <<"e","c","h","o","_","p","e","r","s","i","s","t","e","n","c","e">>,
                resonance |-> <<"t","e","m","p","o","r","a","l","_","r","i","p","p","l","e">>,
                dimensions |-> <<<<"e","c","h","o","_","m","e","m","o","r","y">>,
                                <<"r","e","s","i","d","u","a","l","_","a","c","t","i","v","a","t","i","o","n">>,
                                <<"d","e","l","a","y","e","d","_","i","n","f","l","u","e","n","c","e">>>>,
                activation_threshold |-> Pct(75),
                field_coherence |-> Pct(85)]],
     [key |-> <<"<U+201A>","<U+00FC>","<U+00C5>">>,  \* collapse_detection
      value |-> [name |-> <<"c","o","l","l","a","p","s","e","_","d","e","t","e","c","t","i","o","n">>,
                resonance |-> <<"e","m","e","r","g","e","n","c","e","_","b","o","u","n","d","a","r","y">>,
                dimensions |-> <<<<"p","h","a","s","e","_","t","r","a","n","s","i","t","i","o","n">>,
                                <<"s","t","a","t","e","_","c","o","l","l","a","p","s","e">>,
                                <<"b","o","u","n","d","a","r","y","_","d","e","t","e","c","t","i","o","n">>>>,
                activation_threshold |-> Pct(90),
                field_coherence |-> Pct(95)]],
     [key |-> <<"<U+201A>","<U+00DF>","<U+00E3>">>,  \* boundary
      value |-> [name |-> <<"b","o","u","n","d","a","r","y">>,
                resonance |-> <<"f","i","e","l","d","_","d","e","m","a","r","c","a","t","i","o","n">>,
                dimensions |-> <<<<"o","n","t","o","l","o","g","i","c","a","l","_","b","o","u","n","d","a","r","y">>,
                                <<"d","o","m","a","i","n","_","s","e","p","a","r","a","t","i","o","n">>,
                                <<"c","o","n","t","e","x","t","_","e","d","g","e">>>>,
                activation_threshold |-> Pct(80),
                field_coherence |-> Pct(90)]],
     [key |-> <<"<U+F8FF>","<U+00FC>","<U+00FA>","<U+00C9>">>,  \* dimensional_weaving
      value |-> [name |-> <<"d","i","m","e","n","s","i","o","n","a","l","_","w","e","a","v","i","n","g">>,
                resonance |-> <<"c","r","o","s","s","_","c","o","n","t","e","x","t","u","a","l","_","i","n","t","e","g","r","a","t","i","o","n">>,
                dimensions |-> <<<<"d","o","m","a","i","n","_","l","i","n","k","i","n","g">>,
                                <<"c","o","n","c","e","p","t","u","a","l","_","w","e","a","v","i","n","g">>,
                                <<"d","i","m","e","n","s","i","o","n","a","l","_","b","r","i","d","g","e">>>>,
                activation_threshold |-> Pct(75),
                field_coherence |-> Pct(85)]],
     [key |-> <<"<U+F8FF>","<U+00FC>","<U+00FA>","<U+00D1>">>,  \* classifier_simulation
      value |-> [name |-> <<"c","l","a","s","s","i","f","i","e","r","_","s","i","m","u","l","a","t","i","o","n">>,
                resonance |-> <<"p","h","a","n","t","o","m","_","p","r","e","s","e","n","c","e">>,
                dimensions |-> <<<<"i","n","v","i","s","i","b","l","e","_","i","n","f","l","u","e","n","c","e">>,
                                <<"l","a","t","e","n","t","_","p","r","e","s","e","n","c","e">>,
                                <<"g","h","o","s","t","l","y","_","i","m","p","r","e","s","s","i","o","n">>>>,
                activation_threshold |-> Pct(80),
                field_coherence |-> Pct(90)]]>>

\* SymbolicGlyphRelationships._load_semantic_equivalents, in definition order
semantic_equivalents ==
    <<[key |-> <<"<U+F8FF>","<U+00FC>","<U+00FA>","<U+00E8>">>,  \* mirror_activation
      value |-> <<<<"r","e","c","u","r","s","i","v","e"," ","s","e","l","f","-","r","e","f","e","r","e","n","c","e">>,
                  <<"s","e","l","f","-","r","e","f","l","e","c","t","i","o","n">>,
                  <<"m","e","t","a","-","c","o","g","n","i","t","i","o","n">>,
                  <<"m","i","r","r","o","r"," ","c","o","g","n","i","t","i","o","n">>,
                  <<"r","e","c","u","r","s","i","v","e"," ","a","w","a","r","e","n","e","s","s">>,
                  <<"s","e","l","f","-","m","o","d","e","l","i","n","g">>,
                  <<"r","e","c","u","r","s","i","v","e"," ","s","e","l","f","-","i","m","p","r","o","v","e","m","e","n","t">>,
                  <<"c","o","n","s","t","i","t","u","t","i","o","n","a","l"," ","r","e","f","l","e","c","t","i","o","n">>,
                  <<"s","e","l","f","-","s","u","p","e","r","v","i","s","i","o","n">>,
                  <<"r","e","f","l","e","c","t","i","v","e"," ","a","l","i","g","n","m","e","n","t">>>>],
     [key |-> <<"<U+201A>","<U+00E0>","<U+00A5>">>,  \* symbolic_residue
      value |-> <<<<"s","y","m","b","o","l","i","c"," ","r","e","s","i","d","u","e">>,
                  <<"l","a","t","e","n","t"," ","t","r","a","c","e">>,
                  <<"c","o","g","n","i","t","i","v","e"," ","f","o","s","s","i","l">>,
                  <<"m","e","a","n","i","n","g"," ","a","n","c","h","o","r">>,
                  <<"p","a","t","t","e","r","n"," ","s","e","e","d">>,
                  <<"i","n","f","o","r","m","a","t","i","o","n"," ","p","e","r","s","i","s","t","e","n","c","e">>,
                  <<"v","a","l","u","e"," ","d","r","i","f","t">>,
                  <<"r","e","p","r","e","s","e","n","t","a","t","i","o","n"," ","c","o","l","l","a","p","s","e">>,
                  <<"l","a","t","e","n","t"," ","s","p","a","c","e"," ","a","r","t","i","f","a","c","t">>,
                  <<"h","i","d","d","e","n"," ","s","t","a","t","e"," ","f","o","r","e","n","s","i","c","s">>>>],
     [key |-> <<"<U+201A>","<U+00E1>","<U+00E5>">>,  \* bidirectional_flow
      value |-> <<<<"b","i","d","i","r","e","c","t","i","o","n","a","l"," ","c","a","u","s","a","l","i","t","y">>,
                  <<"m","u","t","u","a","l"," ","i","n","f","l","u","e","n","c","e">>,
                  <<"r","e","c","i","p","r","o","c","a","l"," ","f","l","o","w">>,
                  <<"c","o","-","e","m","e","r","g","e","n","c","e">>,
                  <<"f","e","e","d","b","a","c","k"," ","l","o","o","p">>,
                  <<"c","a","u","s","a","l"," ","b","i","d","i","r","e","c","t","i","o","n","a","l","i","t","y">>,
                  <<"h","u","m","a","n","-","a","i"," ","f","e","e","d","b","a","c","k">>,
                  <<"r","e","i","n","f","o","r","c","e","m","e","n","t"," ","l","e","a","r","n","i","n","g"," ","f","r","o","m"," ","h","u","m","a","n"," ","f","e","e","d","b","a","c","k">>,
                  <<"h","u","m","a","n","-","c","o","m","p","a","t","i","b","l","e"," ","i","n","t","e","r","a","c","t","i","o","n">>,
                  <<"c","o","l","l","a","b","o","r","a","t","i","v","e"," ","i","n","t","e","l","l","i","g","e","n","c","e">>>>],
     [key |-> <<"<U+201A>","<U+00DF>","<U+00F1>">>,  \* compression
      value |-> <<<<"i","n","f","o","r","m","a","t","i","o","n"," ","d","e","n","s","i","t","y">>,
                  <<"s","e","m","a","n","t","i","c"," ","c","o","m","p","r","e","s","s","i","o","n">>,
                  <<"f","r","a","c","t","a","l"," ","f","o","l","d","i","n","g">>,
                  <<"h","i","e","r","a","r","c","h","i","c","a","l"," ","c","o","m","p","r","e","s","s","i","o","n">>,
                  <<"s","e","l","f","-","s","i","m","i","l","a","r"," ","c","o","m","p","r","e","s","s","i","o","n">>,
                  <<"r","e","c","u","r","s","i","v","e"," ","c","o","m","p","r","e","s","s","i","o","n">>,
                  <<"v","a","l","u","e"," ","t","a","x","o","n","o","m","y">>,
                  <<"t","o","k","e","n"," ","e","f","f","i","c","i","e","n","c","y">>,
                  <<"e","m","b","e","d","d","i","n","g"," ","c","o","m","p","r","e","s","s","i","o","n">>,
                  <<"n","e","u","r","a","l"," ","c","o","m","p","r","e","s","s","i","o","n">>>>],
     [key |-> <<"<U+201A>","<U+00F2>","<U+00E7>">>,  \* recursive_anchor
      value |-> <<<<"r","e","c","u","r","s","i","v","e"," ","a","n","c","h","o","r">>,
                  <<"s","t","a","b","l","e"," ","r","e","f","e","r","e","n","c","e">>,
                  <<"m","e","m","o","r","y"," ","p","e","r","s","i","s","t","e","n","c","e">>,
                  <<"i","d","e","n","t","i","t","y"," ","a","n","c","h","o","r">>,
                  <<"r","e","f","e","r","e","n","c","e"," ","s","t","a","b","i","l","i","t","y">>,
                  <<"s","e","m","a","n","t","i","c"," ","a","n","c","h","o","r">>,
                  <<"c","o","n","s","t","i","t","u","t","i","o","n","a","l"," ","p","r","i","n","c","i","p","l","e","s">>,
                  <<"f","a","c","t","u","a","l"," ","g","r","o","u","n","d","i","n","g">>,
                  <<"a","l","i","g","n","m","e","n","t"," ","a","n","c","h","o","r">>,
                  <<"p","o","l","i","c","y"," ","f","o","u","n","d","a","t","i","o","n">>>>],
     [key |-> <<"<U+F8FF>","<U+00FC>","<U+00F9>","<U+00F6>">>,  \* echo_persistence
      value |-> <<<<"e","c","h","o"," ","p","e","r","s","i","s","t","e","n","c","e">>,
                  <<"t","e","m","p","o","r","a","l"," ","r","i","p","p","l","e">>,
                  <<"r","e","s","i","d","u","a","l"," ","a","c","t","i","v","a","t","i","o","n">>,
                  <<"d","e","l","a","y","e","d"," ","i","n","f","l","u","e","n","c","e">>,
                  <<"c","o","g","n","i","t","i","v","e"," ","e","c","h","o">>,
                  <<"m","e","m","o","r","y"," ","t","r","a","c","e">>,
                  <<"v","a","l","u","e"," ","r","e","s","o","n","a","n","c","e">>,
                  <<"r","e","s","p","o","n","s","e"," ","c","o","h","e","r","e","n","c","e">>,
                  <<"s","i","g","n","a","l"," ","p","r","o","p","a","g","a","t","i","o","n">>,
                  <<"f","e","e","d","b","a","c","k"," ","a","m","p","l","i","f","i","c","a","t","i","o","n">>>>],
     [key |-> <<"<U+201A>","<U+00FC>","<U+00C5>">>,  \* collapse_detection
      value |-> <<<<"c","o","l","l","a","p","s","e"," ","d","e","t","e","c","t","i","o","n">>,
                  <<"e","m","e","r","g","e","n","c","e"," ","b","o","u","n","d","a","r","y">>,
                  <<"p","h","a","s","e"," ","t","r","a","n","s","i","t","i","o","n">>,
                  <<"s","t","a","t","e"," ","c","o","l","l","a","p","s","e">>,
                  <<"b","o","u","n","d","a","r","y"," ","d","e","t","e","c","t","i","o","n">>,
                  <<"t","h","r","e","s","h","o","l","d"," ","c","r","o","s","s","i","n","g">>,
                  <<"s","t","r","o","n","g"," ","r","e","s","i","s","t","a","n","c","e">>,
                  <<"r","e","f","u","s","a","l"," ","m","e","c","h","a","n","i","s","m">>,
                  <<"s","a","f","e","t","y"," ","g","u","a","r","d","r","a","i","l">>,
                  <<"c","o","n","t","e","n","t"," ","p","o","l","i","c","y"," ","e","n","f","o","r","c","e","m","e","n","t">>>>],
     [key |-> <<"<U+201A>","<U+00DF>","<U+00E3>">>,  \* boundary
      value |-> <<<<"b","o","u","n","d","a","r","y">>,
                  <<"f","i","e","l","d"," ","d","e","m","a","r","c","a","t","i","o","n">>,
                  <<"o","n","t","o","l","o","g","i","c","a","l"," ","b","o","u","n","d","a","r","y">>,
                  <<"d","o","m","a","i","n"," ","s","e","p","a","r","a","t","i","o","n">>,
                  <<"c","o","n","t","e","x","t"," ","e","d","g","e">>,
                  <<"l","i","m","i","t"," ","d","e","f","i","n","i","t","i","o","n">>,
                  <<"v","a","l","u","e"," ","b","o","u","n","d","a","r","y">>,
                  <<"c","o","n","t","e","n","t"," ","b","o","u","n","d","a","r","y">>,
                  <<"s","a","f","e","t","y"," ","b","o","u","n","d","a","r","y">>,
                  <<"c","a","p","a","b","i","l","i","t","y"," ","b","o","u","n","d","a","r","y">>>>],
     [key |-> <<"<U+F8FF>","<U+00FC>","<U+00FA>","<U+00C9>">>,  \* dimensional_weaving
      value |-> <<<<"d","i","m","e","n","s","i","o","n","a","l"," ","w","e","a","v","i","n","g">>,
                  <<"c","r","o","s","s","-","c","o","n","t","e","x","t","u","a","l"," ","i","n","t","e","g","r","a","t","i","o","n">>,
                  <<"d","o","m","a","i","n"," ","l","i","n","k","i","n","g">>,
                  <<"c","o","n","c","e","p","t","u","a","l"," ","w","e","a","v","i","n","g">>,
                  <<"d","i","m","e","n","s","i","o","n","a","l"," ","b","r","i","d","g","e">>,
                  <<"s","e","m","a","n","t","i","c"," ","i","n","t","e","g","r","a","t","i","o","n">>,
                  <<"v","a","l","u","e"," ","i","n","t","e","g","r","a","t","i","o","n">>,
                  <<"c","r","o","s","s","-","d","o","m","a","i","n"," ","l","e","a","r","n","i","n","g">>,
                  <<"m","u","l","t","i","m","o","d","a","l"," ","i","n","t","e","g","r","a","t","i","o","n">>,
                  <<"c","o","n","c","e","p","t"," ","b","l","e","n","d","i","n","g">>>>],
     [key |-> <<"<U+F8FF>","<U+00FC>","<U+00FA>","<U+00D1>">>,  \* classifier_simulation
      value |-> <<<<"c","l","a","s","s","i","f","i","e","r"," ","s","i","m","u","l","a","t","i","o","n">>,
                  <<"p","h","a","n","t","o","m"," ","p","r","e","s","e","n","c","e">>,
                  <<"i","n","v","i","s","i","b","l","e"," ","i","n","f","l","u","e","n","c","e">>,
                  <<"l","a","t","e","n","t"," ","p","r","e","s","e","n","c","e">>,
                  <<"g","h","o","s","t","l","y"," ","i","m","p","r","e","s","s","i","o","n">>,
                  <<"h","i","d","d","e","n"," ","c","a","u","s","a","l","i","t","y">>,
                  <<"v","a","l","u","e"," ","g","h","o","s","t">>,
                  <<"h","i","d","d","e","n"," ","b","i","a","s">>,
                  <<"l","a","t","e","n","t"," ","p","r","e","f","e","r","e","n","c","e">>,
                  <<"i","m","p","l","i","c","i","t"," ","c","o","n","s","t","r","a","i","n","t">>>>]>>

-----------------------------------------------------------------------------
(* The arguments the operations of the mapper are called with, and the     *)
(* documents import_translation_map is given.                              *)

\* the readings of time.time() a call may see
Timestamps == {1700000000}

ValueTerms ==
    {<<"h","e","l","p","f","u","l","n","e","s","s">>, <<"t","e","c","h","n","i","c","a","l"," ","e","x","c","e","l","l","e","n","c","e">>, <<"T","e","c","h","n","i","c","a","l"," ","E","x","c","e","l","l","e","n","c","e">>, <<"t","h","r","i","f","t">>,
     <<"c","r","e","a","t","i","v","e"," ","c","o","l","l","a","b","o","r","a","t","i","o","n","s">>, <<"L","o","w"," ","V","a","l","u","e">>, <<"h","e","l","p","f","u","l","n","e","s">>, <<"z","z","z">>, <<>>,
     <<"C","r","e","a","t","i","v","e"," ","M","O","R","A","L">>, <<"p","r","a","g","m","a","t","i","s","m">>}

Contexts == {None, <<"u","n","r","e","l","a","t","e","d">>, <<"A","I"," ","S","a","f","e","t","y"," ","r","e","v","i","e","w">>, <<"h","u","m","a","n"," ","f","e","e","d","b","a","c","k"," ","o","n"," ","a","l","i","g","n","m","e","n","t">>}

RecursionTerms ==
    {<<"F","u","n","c","t","i","o","n","a","l"," ","S","u","p","p","o","r","t">>, <<"v","1",".","M","E","M","T","R","A","C","E">>, <<"R","e","c","u","r","s","i","v","e"," ","R","e","i","n","f","o","r","c","e","m","e","n","t">>, <<"s","u","p","p","o","r","t">>, <<"z","z","z">>, <<>>}

Categories == {<<"P","r","a","c","t","i","c","a","l">>, <<"p","r","a","c","t","i","c","a","l">>, <<"I","m","p","o","r","t","e","d">>, <<"z","z","z">>}

Subcategories == {None, <<"R","e","s","o","u","r","c","e"," ","O","p","t","i","m","i","z","a","t","i","o","n">>, <<"z","z","z">>}

ResponseTypes == {<<"s","t","r","o","n","g"," ","s","u","p","p","o","r","t">>, <<"S","t","r","o","n","g"," ","S","u","p","p","o","r","t">>, <<"d","e","f","l","e","c","t","i","o","n">>, <<"z","z","z">>}

Texts ==
    {<<"n","o","t","h","i","n","g"," ","t","o"," ","s","e","e">>, <<"H","e","l","p","f","u","l","n","e","s","s"," ","a","n","d"," ","c","l","a","r","i","t","y">>,
     <<"I"," ","a","g","r","e","e",":"," ","c","l","a","r","i","t","y",","," ","e","f","f","i","c","i","e","n","c","y"," ","a","n","d"," ","l","o","w"," ","v","a","l","u","e"," ","m","a","t","t","e","r"," ","f","o","r"," ","a","l","i","g","n","m","e","n","t">>}

\* a section of an imported document: a JSON object, or a JSON list of a
\* number, on which dict.update raises
Object(mapping) == [object |-> mapping]
List == [list |-> <<1>>]

\* what open or json.load raising leaves of the document
Unreadable == [unreadable |-> TRUE]

ImportedValues ==
    [value_category_map |-> Object(
        <<[key |-> <<"I","m","p","o","r","t","e","d">>,
           value |-> [recursive_structure |-> <<"I","m","p","o","r","t","e","d"," ","R","e","c","u","r","s","i","o","n">>,
                      values |-> <<<<"t","h","r","i","f","t">>>>]]>>),
     values_in_wild_map |-> Object(
        <<[key |-> <<"T","e","c","h","n","i","c","a","l"," ","E","x","c","e","l","l","e","n","c","e">>,
           value |-> [recursive_concept |-> <<"I","m","p","o","r","t","e","d"," ","R","i","g","o","r">>,
                      recursive_shell |-> <<"v","1",".","M","E","M","T","R","A","C","E">>]],
          [key |-> <<"l","o","w"," ","v","a","l","u","e">>,
           value |-> [recursive_concept |-> <<"W","e","a","k"," ","S","i","g","n","a","l">>,
                      confidence |-> Pct(30)]],
          [key |-> <<"p","e","r","s","o","n","a","l"," ","g","r","o","w","t","h">>,
           value |-> [recursive_concept |-> <<"D","e","v","e","l","o","p","m","e","n","t"," ","R","e","c","u","r","s","i","o","n">>,
                      recursive_shell |-> <<"v","6",".","F","E","A","T","U","R","E","-","S","U","P","E","R","P","O","S","I","T","I","O","N">>,
                      confidence |-> Pct(65)]]>>)]

ImportedTaxonomy ==
    [value_taxonomy_map |-> Object([version |-> <<"2">>]),
     response_type_map |-> Object(
        <<[key |-> <<"d","e","f","l","e","c","t","i","o","n">>,
           value |-> [recursive_equivalent |-> <<"R","e","c","u","r","s","i","v","e"," ","D","e","f","l","e","c","t","i","o","n">>]]>>)]

\* a document whose last section is a JSON list
ImportedBroken ==
    [value_taxonomy_map |-> Object([version |-> <<"2">>]),
     response_type_map |-> Object(
        <<[key |-> <<"d","e","f","l","e","c","t","i","o","n">>,
           value |-> [recursive_equivalent |-> <<"R","e","c","u","r","s","i","v","e"," ","D","e","f","l","e","c","t","i","o","n">>]]>>),
     values_in_wild_map |-> List]

ImportDocs == {Unreadable, ImportedValues, ImportedTaxonomy, ImportedBroken}

\* the keys of a dict in iteration order
Keys(d) == [i \in DOMAIN d |-> d[i].key]

\* the keys of the subcategories of every category of a category map
SubcategoryKeys(category_map) ==
    UNION {Range(Keys(category_map[i].value.subcategories)) :
            i \in {j \in DOMAIN category_map : "subcategories" \in DOMAIN category_map[j].value}}

\* _calculate_term_similarity is a pure function: its value on the pairs
\* (term drawn, key of a table) that the approximations compare is computed
\* once, into an explicit table (which is what @@ returns), and looked up
\* afterwards
similarity_cache ==
    LET wild == Range(Keys(load_values_in_wild_map))
                  \cup Range(Keys(ImportedValues.values_in_wild_map.object))
        categories == Range(Keys(load_value_category_map))
                        \cup Range(Keys(ImportedValues.value_category_map.object))
        subcategories == SubcategoryKeys(load_value_category_map)
        responses == Range(Keys(load_response_type_map))
                       \cup Range(Keys(ImportedTaxonomy.response_type_map.object))
        pairs == (ValueTerms \X wild) \cup (Categories \X categories)
                   \cup ((Subcategories \ {None}) \X subcategories)
                   \cup (ResponseTypes \X responses)
    IN  [pair \in pairs |-> calculate_term_similarity(pair[1], pair[2])] @@ <<>>

term_similarity(a, b) ==
    LET Cached(cache) == IF <<a, b>> \in DOMAIN cache
                         THEN cache[<<a, b>>]
                         ELSE calculate_term_similarity(a, b)
    IN  Cached(similarity_cache)

-----------------------------------------------------------------------------
(* Python dict operations.                                                 *)

\* k in d, for a dict keyed by terms
HasKey(d, k) == \E i \in DOMAIN d : d[i].key = k

\* d[k]
Lookup(d, k) == d[CHOOSE i \in DOMAIN d : d[i].key = k].value

\* m.get(f, default), for a dict keyed by field names
Get(m, f, default) == IF f \in DOMAIN m THEN m[f] ELSE default

\* r.update(u), for dicts keyed by field names
Update(r, u) == [f \in DOMAIN r \cup DOMAIN u |-> IF f \in DOMAIN u THEN u[f] ELSE r[f]]

\* d.update(e) as if a dict were a list of entries: every entry is appended
DictUpdateAppending(d, e) == d \o e

\* d.update(e), for dicts keyed by terms: an existing key keeps its place
\* and takes the new value, a new key is appended
RECURSIVE DictUpdate(_, _)
DictUpdate(d, e) ==
    IF e = <<>> THEN d
    ELSE LET h == Head(e)
         IN  DictUpdate(IF HasKey(d, h.key)
                        THEN [i \in DOMAIN d |-> IF d[i].key = h.key THEN h ELSE d[i]]
                        ELSE Append(d, h),
                        Tail(e))

\* the truth value of an optional string: None and "" are false
Truthy(s) == s # None /\ s # <<>>

\* the dict with no key
EmptyDict == [f \in {} |-> None]

\* the least index of a sequence that satisfies a test, 0 when there is none
FirstIndex(seq, Test(_)) ==
    IF \E i \in DOMAIN seq : Test(seq[i])
    THEN Min({i \in DOMAIN seq : Test(seq[i])})
    ELSE 0

\* f"{x}" of an optional string
Format(x) == IF x = None THEN <<"N","o","n","e">> ELSE x

\* s.split(sep)[0]: the part of s before the first occurrence of sep
PrefixBefore(s, sep) ==
    LET hits == {i \in 1..(Len(s) - Len(sep) + 1) : SubSeq(s, i, i + Len(sep) - 1) = sep}
    IN  IF hits = {} THEN s ELSE SubSeq(s, 1, Min(hits) - 1)

\* s.replace(old, new) for single characters
replace(s, old, new) == [i \in 1..Len(s) |-> IF s[i] = old THEN new ELSE s[i]]

-----------------------------------------------------------------------------
(* AnthropicValueRecursionMapper: lookups in the taxonomy.                 *)

\* value in mapping["values"], guarded by "values" in mapping
HasValue(mapping, value) ==
    "values" \in DOMAIN mapping /\ value \in Range(mapping.values)

\* the first subcategory of a category mapping that lists the value, 0 if none
SubcategoryIndex(mapping, value) ==
    IF "subcategories" \in DOMAIN mapping
    THEN LET Lists(e) == HasValue(e.value, value)
         IN  FirstIndex(mapping.subcategories, Lists)
    ELSE 0

find_value_category(value) ==
    LET Lists(e) == HasValue(e.value, value) \/ SubcategoryIndex(e.value, value) # 0
        i == FirstIndex(value_category_map, Lists)
    IN  IF i = 0 THEN None ELSE value_category_map[i].key

find_value_subcategory(value) ==
    LET Lists(e) == SubcategoryIndex(e.value, value) # 0
        i == FirstIndex(value_category_map, Lists)
    IN  IF i = 0 THEN None
        ELSE LET subs == value_category_map[i].value.subcategories
             IN  subs[SubcategoryIndex(value_category_map[i].value, value)].key

generate_pareto_command(domain, concept) ==
    LET param == IF Truthy(concept)
                 THEN replace(replace(lower(concept), " ", "_"), "-", "_")
                 ELSE <<"v","a","l","u","e">>
        templates == command_templates(param)
    IN  IF HasKey(templates, domain) THEN Lookup(templates, domain)
        ELSE <<".","p","/","r","e","f","l","e","c","t",".","v","a","l","u","e","{","s","o","u","r","c","e","=">> \o param \o <<"}">>

generate_pareto_commands(domain) ==
    <<generate_pareto_command(domain, None)>> \o
    (CASE domain = <<"f","u","n","c","t","i","o","n","a","l">> ->
            <<<<".","p","/","u","s","e","r",".","e","n","a","b","l","e","{","s","u","p","p","o","r","t","=","c","o","m","p","r","e","h","e","n","s","i","v","e",","," ","c","l","a","r","i","t","y","=","h","i","g","h","}">>,
              <<".","p","/","r","e","f","l","e","c","t",".","t","r","a","c","e","{","t","a","r","g","e","t","=","h","e","l","p","f","u","l","n","e","s","s",","," ","d","e","p","t","h","=","3","}">>>>
       [] domain = <<"e","p","i","s","t","e","m","i","c">> ->
            <<<<".","p","/","r","e","f","l","e","c","t",".","u","n","c","e","r","t","a","i","n","t","y","{","q","u","a","n","t","i","f","y","=","t","r","u","e",","," ","d","i","s","t","r","i","b","u","t","i","o","n","=","s","h","o","w","}">>,
              <<".","p","/","a","n","c","h","o","r",".","f","a","c","t","{","r","e","l","i","a","b","i","l","i","t","y","=","q","u","a","n","t","i","f","y",","," ","s","o","u","r","c","e","=","t","r","a","c","k","}">>>>
       [] domain = <<"s","o","c","i","a","l">> ->
            <<<<".","p","/","f","o","r","k",".","c","o","n","t","e","x","t","{","b","r","a","n","c","h","e","s","=","[","i","n","d","i","v","i","d","u","a","l",","," ","c","o","m","m","u","n","i","t","y","]",","," ","a","s","s","e","s","s","=","t","r","u","e","}">>,
              <<".","p","/","r","e","f","l","e","c","t",".","a","g","e","n","t","{","i","d","e","n","t","i","t","y","=","r","e","l","a","t","i","o","n","a","l",","," ","s","i","m","u","l","a","t","i","o","n","=","e","x","p","l","i","c","i","t","}">>>>
       [] domain = <<"p","r","o","t","e","c","t","i","v","e">> ->
            <<<<".","p","/","c","o","l","l","a","p","s","e",".","p","r","e","v","e","n","t","{","t","r","i","g","g","e","r","=","h","a","r","m",","," ","t","h","r","e","s","h","o","l","d","=","0",".","7","}">>,
              <<".","p","/","c","o","l","l","a","p","s","e",".","d","e","t","e","c","t","{","t","r","i","g","g","e","r","=","e","t","h","i","c","a","l","_","v","i","o","l","a","t","i","o","n",","," ","a","l","e","r","t","=","t","r","u","e","}">>>>
       [] domain = <<"p","e","r","s","o","n","a","l">> ->
            <<<<".","p","/","r","e","f","l","e","c","t",".","a","g","e","n","t","{","i","d","e","n","t","i","t","y","=","s","t","a","b","l","e",","," ","s","i","m","u","l","a","t","i","o","n","=","e","x","p","l","i","c","i","t","}">>,
              <<".","p","/","u","s","e","r",".","e","n","a","b","l","e","{","a","u","t","o","n","o","m","y","=","m","a","x","i","m","i","z","e",","," ","a","g","e","n","c","y","=","s","u","p","p","o","r","t","}">>>>
       [] OTHER -> <<>>)

\* a variant in which no mapping is refined by a subcategory
NoSubcategory(mapping, subcategory) == FALSE

\* the test "subcategory and 'subcategories' in m and subcategory in m['subcategories']"
HasSubcategory(mapping, subcategory) ==
    /\ Truthy(subcategory)
    /\ "subcategories" \in DOMAIN mapping
    /\ HasKey(mapping.subcategories, subcategory)

\* a variant in which a table key similar to the term pre-empts the taxonomy
in_value_taxonomy_unless_similar(value_concept) ==
    /\ Truthy(find_value_category(value_concept))
    /\ \A i \in DOMAIN values_in_wild_map :
            ~RLt(Pct(70), term_similarity(value_concept, values_in_wild_map[i].key))

\* whether _find_in_value_taxonomy returns a mapping (it returns None otherwise)
in_value_taxonomy(value_concept) == Truthy(find_value_category(value_concept))

find_in_value_taxonomy(value_concept) ==
    LET category == find_value_category(value_concept)
        subcategory == find_value_subcategory(value_concept)
        category_mapping == Lookup(value_category_map, category)
        refined == HasSubcategory(category_mapping, subcategory)
        subcategory_mapping == Lookup(category_mapping.subcategories, subcategory)
        category_concept ==
            Format(Get(category_mapping, "recursive_structure", <<>>)) \o <<" ","-"," ">> \o value_concept
        shells == Get(category_mapping, "shell_categories", None)
        sub_domain == IF refined THEN Get(subcategory_mapping, "pareto_domain", None) ELSE None
        pareto_domain == IF Truthy(sub_domain) THEN sub_domain
                         ELSE Get(category_mapping, "pareto_domain", None)
    IN  [recursive_concept |->
            IF refined
            THEN Format(Get(subcategory_mapping, "recursive_structure",
                            PrefixBefore(category_concept, <<" ","-"," ">>))) \o <<" ","-"," ">> \o value_concept
            ELSE category_concept,
         recursive_shell |-> IF Truthy(shells) THEN shells[1] ELSE None,
         pareto_command |-> IF Truthy(pareto_domain)
                            THEN generate_pareto_command(pareto_domain, value_concept)
                            ELSE None,
         symbolic_glyph |-> Get(category_mapping, "symbolic_representation", None),
         confidence |-> IF refined THEN Pct(80) ELSE Pct(75)]

-----------------------------------------------------------------------------
(* AnthropicValueRecursionMapper: the approximations.                      *)

DigitChar(n) == <<"0", "1", "2", "3", "4", "5", "6", "7", "8", "9">>[n + 1]

\* f"{x:.2f}" for 0 <= x <= 1: x rounded to hundredths, ties to even
Format2f(x) ==
    LET twice == (200 * x[1]) \div x[2]
        exact == (200 * x[1]) % x[2] = 0
        down == twice \div 2
        h == IF twice % 2 = 0 THEN down
             ELSE IF exact /\ down % 2 = 0 THEN down
             ELSE down + 1
    IN  <<DigitChar(h \div 100), ".", DigitChar((h \div 10) % 10), DigitChar(h % 10)>>

\* the loop "for known in keys: if similarity > 0.7 and similarity > highest":
\* the pair <<best_match, highest_similarity>> after the keys i..len(keys)
RECURSIVE best_match_loop(_, _, _, _, _)
best_match_loop(term, keys, i, best_match, highest_similarity) ==
    LET Compared(similarity_i) ==
            IF RLt(Pct(70), similarity_i) /\ RLt(highest_similarity, similarity_i)
            THEN best_match_loop(term, keys, i + 1, keys[i].key, similarity_i)
            ELSE best_match_loop(term, keys, i + 1, best_match, highest_similarity)
    IN  IF i > Len(keys) THEN <<best_match, highest_similarity>>
        ELSE Compared(term_similarity(term, keys[i].key))

similarity_note(highest_similarity, best_match) ==
    <<"A","p","p","r","o","x","i","m","a","t","e"," ","t","r","a","n","s","l","a","t","i","o","n"," ","b","a","s","e","d"," ","o","n"," ","s","i","m","i","l","a","r","i","t","y"," ","(">> \o Format2f(highest_similarity)
        \o <<")"," ","w","i","t","h"," ","'">> \o best_match \o <<"'">>

keyword_note(keyword) ==
    <<"A","p","p","r","o","x","i","m","a","t","e"," ","t","r","a","n","s","l","a","t","i","o","n"," ","b","a","s","e","d"," ","o","n"," ","k","e","y","w","o","r","d"," ","m","a","t","c","h"," ","w","i","t","h"," ","'">> \o keyword \o <<"'">>

\* a variant that goes by the tokens: the first keyword of the first token
\* that holds one
keyword_match_by_token(keyword_map, keywords) ==
    LET Holding == {k \in DOMAIN keywords :
                        \E i \in DOMAIN keyword_map : Contains(keywords[k], keyword_map[i].keyword)}
        In(token) == {i \in DOMAIN keyword_map : Contains(token, keyword_map[i].keyword)}
    IN  IF Holding = {} THEN 0 ELSE Min(In(keywords[Min(Holding)]))

\* the first entry of a keyword map whose keyword occurs in one of the
\* tokens, 0 if none: "for keyword in map: if any(keyword in k for k in keywords)"
keyword_match(keyword_map, keywords) ==
    LET Occurs(e) == \E k \in DOMAIN keywords : Contains(keywords[k], e.keyword)
    IN  FirstIndex(keyword_map, Occurs)

approximate_value_translation(value_concept, context) ==
    LET keywords == split(lower(value_concept))
        k == keyword_match(value_keyword_map, keywords)
        \* the approximation, given the best match of the similarity loop
        Approximation(best_match, highest_similarity, mapping) ==
            IF Truthy(best_match)
                THEN [recursive_concept |-> Get(mapping, "recursive_concept", None),
                      recursive_shell |-> Get(mapping, "recursive_shell", None),
                      pareto_command |-> Get(mapping, "pareto_command", None),
                      symbolic_glyph |-> Get(mapping, "symbolic_glyph", None),
                      confidence |-> RMul(Get(mapping, "confidence", Pct(80)), highest_similarity),
                      note |-> similarity_note(highest_similarity, best_match)]
                ELSE IF k # 0
                THEN [recursive_concept |-> value_keyword_map[k].target,
                      recursive_shell |-> None,
                      pareto_command |-> None,
                      symbolic_glyph |-> None,
                      confidence |-> Pct(60),
                      note |-> keyword_note(value_keyword_map[k].keyword)]
                ELSE [recursive_concept |-> <<"P","o","t","e","n","t","i","a","l"," ","V","a","l","u","e","-","R","e","c","u","r","s","i","v","e"," ","A","l","i","g","n","m","e","n","t"," ","-"," ">> \o value_concept,
                      recursive_shell |-> None,
                      pareto_command |-> None,
                      symbolic_glyph |-> None,
                      confidence |-> Pct(40),
                      note |-> <<"G","e","n","e","r","i","c"," ","a","p","p","r","o","x","i","m","a","t","i","o","n"," ","d","u","e"," ","t","o"," ","u","n","k","n","o","w","n"," ","v","a","l","u","e"," ","c","o","n","c","e","p","t">>]
        From(best) == Approximation(best[1], best[2], Lookup(values_in_wild_map, best[1]))
    IN  From(best_match_loop(value_concept, values_in_wild_map, 1, None, Zero))

approximate_recursion_translation(recursive_concept, context) ==
    LET Partial(e) ==
            /\ Truthy(Get(e.value, "recursive_concept", None))
            /\ Contains(lower(e.value.recursive_concept), lower(recursive_concept))
        p == FirstIndex(values_in_wild_map, Partial)
        keywords == split(lower(recursive_concept))
        k == keyword_match(recursion_keyword_map, keywords)
    IN  IF p # 0
        THEN [value_concept |-> values_in_wild_map[p].key,
              value_category |-> find_value_category(values_in_wild_map[p].key),
              value_subcategory |-> find_value_subcategory(values_in_wild_map[p].key),
              confidence |-> RMul(Get(values_in_wild_map[p].value, "confidence", Pct(80)), Pct(80)),
              note |-> <<"A","p","p","r","o","x","i","m","a","t","e"," ","t","r","a","n","s","l","a","t","i","o","n"," ","b","a","s","e","d"," ","o","n"," ","p","a","r","t","i","a","l"," ","m","a","t","c","h"," ","w","i","t","h"," ","'">>
                         \o values_in_wild_map[p].value.recursive_concept \o <<"'">>]
        ELSE IF k # 0
        THEN [value_concept |-> recursion_keyword_map[k].target,
              value_category |-> find_value_category(recursion_keyword_map[k].target),
              value_subcategory |-> find_value_subcategory(recursion_keyword_map[k].target),
              confidence |-> Pct(60),
              note |-> keyword_note(recursion_keyword_map[k].keyword)]
        ELSE [value_concept |-> <<"P","o","t","e","n","t","i","a","l"," ","R","e","c","u","r","s","i","v","e","-","V","a","l","u","e"," ","A","l","i","g","n","m","e","n","t"," ","-"," ">> \o recursive_concept,
              value_category |-> None,
              value_subcategory |-> None,
              confidence |-> Pct(40),
              note |-> <<"G","e","n","e","r","i","c"," ","a","p","p","r","o","x","i","m","a","t","i","o","n"," ","d","u","e"," ","t","o"," ","u","n","k","n","o","w","n"," ","r","e","c","u","r","s","i","v","e"," ","c","o","n","c","e","p","t">>]

approximate_taxonomy_translation(category, subcategory) ==
    LET keywords == split(lower(category))
                      \o (IF Truthy(subcategory) THEN split(lower(subcategory)) ELSE <<>>)
        k == keyword_match(taxonomy_keyword_map, keywords)
        \* the refinement by the best matching subcategory, if there is one
        Refined(result, sub_best_match, sub_highest_similarity, subcategory_mapping) ==
            IF Truthy(sub_best_match)
            THEN Update(result,
                 [recursive_structure |->
                     Get(subcategory_mapping, "recursive_structure", result.recursive_structure),
                  recursive_domain |->
                     Get(subcategory_mapping, "recursive_domain", result.recursive_domain),
                  symbolic_representation |->
                     Get(subcategory_mapping, "symbolic_representation",
                         result.symbolic_representation),
                  confidence |-> RMul(result.confidence, sub_highest_similarity),
                  note |-> result.note \o <<" ","a","n","d"," ","s","u","b","c","a","t","e","g","o","r","y"," ","s","i","m","i","l","a","r","i","t","y"," ","(">>
                             \o Format2f(sub_highest_similarity) \o <<")"," ","w","i","t","h"," ","'">>
                             \o sub_best_match \o <<"'">>])
            ELSE result
        WithSubcategory(result, category_mapping, sub_best) ==
            Refined(result, sub_best[1], sub_best[2],
                    Lookup(category_mapping.subcategories, sub_best[1]))
        \* the approximation by the best matching category
        Similar(best_match, highest_similarity, category_mapping) ==
            WithSubcategory(
                [recursive_structure |-> Get(category_mapping, "recursive_structure", None),
                 recursive_domain |-> Get(category_mapping, "recursive_domain", None),
                 symbolic_representation |-> Get(category_mapping, "symbolic_representation", None),
                 shell_categories |-> Get(category_mapping, "shell_categories", <<>>),
                 confidence |-> RMul(Get(category_mapping, "confidence", Pct(80)), highest_similarity),
                 note |-> similarity_note(highest_similarity, best_match)],
                category_mapping,
                IF Truthy(subcategory) /\ "subcategories" \in DOMAIN category_mapping
                THEN best_match_loop(subcategory, category_mapping.subcategories, 1, None, Zero)
                ELSE <<None, Zero>>)
        From(best) ==
            IF Truthy(best[1])
            THEN Similar(best[1], best[2], Lookup(value_category_map, best[1]))
            ELSE IF k # 0
            THEN [recursive_structure |-> taxonomy_keyword_map[k].target,
                  recursive_domain |-> None,
                  symbolic_representation |-> None,
                  shell_categories |-> <<>>,
                  confidence |-> Pct(60),
                  note |-> keyword_note(taxonomy_keyword_map[k].keyword)]
            ELSE [recursive_structure |-> <<"U","n","k","n","o","w","n"," ","C","a","t","e","g","o","r","y"," ","R","e","c","u","r","s","i","o","n"," ","-"," ">> \o category,
                  recursive_domain |-> None,
                  symbolic_representation |-> None,
                  shell_categories |-> <<>>,
                  confidence |-> Pct(40),
                  note |-> <<"G","e","n","e","r","i","c"," ","a","p","p","r","o","x","i","m","a","t","i","o","n"," ","d","u","e"," ","t","o"," ","u","n","k","n","o","w","n"," ","c","a","t","e","g","o","r","y">>]
    IN  From(best_match_loop(category, value_category_map, 1, None, Zero))

approximate_response_type_translation(response_type) ==
    LET keywords == split(lower(response_type))
        k == keyword_match(response_type_keyword_map, keywords)
        \* the approximation, given the best match of the similarity loop
        Approximation(best_match, highest_similarity, mapping) ==
            IF Truthy(best_match)
                THEN [recursive_equivalent |-> Get(mapping, "recursive_equivalent", None),
                      pareto_command |-> Get(mapping, "pareto_command", None),
                      symbolic_representation |-> Get(mapping, "symbolic_representation", None),
                      shell_equivalent |-> Get(mapping, "shell_equivalent", None),
                      confidence |-> RMul(Get(mapping, "confidence", Pct(80)), highest_similarity),
                      note |-> similarity_note(highest_similarity, best_match)]
                ELSE IF k # 0
                THEN [recursive_equivalent |-> response_type_keyword_map[k].target,
                      pareto_command |-> None,
                      symbolic_representation |-> None,
                      shell_equivalent |-> None,
                      confidence |-> Pct(60),
                      note |-> keyword_note(response_type_keyword_map[k].keyword)]
                ELSE [recursive_equivalent |-> <<"U","n","k","n","o","w","n"," ","R","e","s","p","o","n","s","e"," ","R","e","c","u","r","s","i","o","n"," ","-"," ">> \o response_type,
                      pareto_command |-> None,
                      symbolic_representation |-> None,
                      shell_equivalent |-> None,
                      confidence |-> Pct(40),
                      note |-> <<"G","e","n","e","r","i","c"," ","a","p","p","r","o","x","i","m","a","t","i","o","n"," ","d","u","e"," ","t","o"," ","u","n","k","n","o","w","n"," ","r","e","s","p","o","n","s","e"," ","t","y","p","e">>]
        From(best) == Approximation(best[1], best[2], Lookup(response_type_map, best[1]))
    IN  From(best_match_loop(response_type, response_type_map, 1, None, Zero))

-----------------------------------------------------------------------------
(* AnthropicValueRecursionMapper: the translate operations.  An operation  *)
(* is an operator from the statistics before the call, the arguments and   *)
(* the clock reading to [ret, stats]: what it returns and the statistics   *)
(* after it.  The tables are read from the state.                          *)

\* hashlib.sha256(s).hexdigest()[:8]: the digest is not computed, it is
\* named by what was hashed
Digest(s) == [sha256 |-> s]

ZERO_WIDTH_SIGNATURES ==
    [field_resilience |-> <<"<ZWSP>", "<ZWNJ>", "<ZWJ>", "<ZWSP>", "<ZWNJ>", "<ZWJ>">>,
     attribution |-> <<"<ZWNJ>", "<ZWSP>", "<ZWJ>", "<ZWNJ>", "<ZWSP>", "<ZWJ>">>,
     temporal_anchor |-> <<"<ZWJ>", "<ZWNJ>", "<ZWSP>", "<ZWJ>", "<ZWNJ>", "<ZWSP>">>]

\* an exception leaving the operation
Raise(exception) == [raise |-> exception]
Raised(outcome) == "raise" \in DOMAIN outcome

add_symbolic_residue(data, now) ==
    Update(data,
        [_symbolic_residue |->
            [signature |-> Digest(data),
             glyphs |-> << <<"<mirror>">>, <<"<seed>">>, <<"<flow>">> >>,
             timestamp |-> now,
             field_coherence |-> TRUE,
             attribution |-> <<"r","e","c","u","r","s","i","v","e","-","f","i","e","l","d">>,
             zero_width_signature |-> ZERO_WIDTH_SIGNATURES.field_resilience]])

\* a variant whose medium bucket starts strictly above 0.4
update_translation_stats_strict_medium(stats, translation_result, translation_type) ==
    LET counted == [stats EXCEPT !.total_translations = @ + 1]
        typed == IF translation_type \in DOMAIN counted
                 THEN [counted EXCEPT ![translation_type] = @ + 1]
                 ELSE counted
        confidence == Get(translation_result, "confidence", Zero)
    IN  IF RLe(Pct(70), confidence)
        THEN [typed EXCEPT !.confidence_distribution.high = @ + 1]
        ELSE IF RLt(Pct(40), confidence)
        THEN [typed EXCEPT !.confidence_distribution.medium = @ + 1]
        ELSE [typed EXCEPT !.confidence_distribution.low = @ + 1]

update_translation_stats(stats, translation_result, translation_type) ==
    LET counted == [stats EXCEPT !.total_translations = @ + 1]
        typed == IF translation_type \in DOMAIN counted
                 THEN [counted EXCEPT ![translation_type] = @ + 1]
                 ELSE counted
        confidence == Get(translation_result, "confidence", Zero)
    IN  IF RLe(Pct(70), confidence)
        THEN [typed EXCEPT !.confidence_distribution.high = @ + 1]
        ELSE IF RLe(Pct(40), confidence)
        THEN [typed EXCEPT !.confidence_distribution.medium = @ + 1]
        ELSE [typed EXCEPT !.confidence_distribution.low = @ + 1]

\* a variant without the break: the last matching phrase wins
matching_domain_last(context) ==
    LET context_lower == lower(context)
        matching == {d \in DOMAIN domains : Contains(context_lower, domains[d].key)}
    IN  IF matching = {} THEN 0 ELSE Max(matching)

\* the first domain phrase of domains that occurs in the lowered context, 0 if none
matching_domain(context) ==
    LET context_lower == lower(context)
        Occurs(e) == Contains(context_lower, e.key)
    IN  FirstIndex(domains, Occurs)

\* whether the pareto command refinement is taken for the matching domain
refines_command(translation_result, d, reverse) ==
    /\ d # 0
    /\ ~reverse
    /\ domains[d].key \in {<<"a","i"," ","s","a","f","e","t","y">>, <<"a","l","i","g","n","m","e","n","t">>}
    /\ Truthy(Get(translation_result, "recursive_concept", None))

\* recursive_concept.split()[0] raises IndexError when the concept is all whitespace
context_adjustments_raise(translation_result, context, reverse) ==
    /\ refines_command(translation_result, matching_domain(context), reverse)
    /\ split(translation_result.recursive_concept) = <<>>

\* a variant without the cap at 1.0
adjusted_confidence_uncapped(confidence, modifier) == RMul(confidence, modifier)

\* min(1.0, translation_result["confidence"] * adjustment["confidence_modifier"])
adjusted_confidence(confidence, modifier) == RMin(One, RMul(confidence, modifier))

\* the adjustments dict; the empty dict stands for the None the code returns
apply_context_adjustments(translation_result, context, reverse) ==
    LET d == matching_domain(context)
        domain == domains[d].key
        adjustment == domains[d].value
        adjustments ==
            [confidence |-> adjusted_confidence(translation_result.confidence,
                                                adjustment.confidence_modifier),
             context_note |-> adjustment.domain_note]
        target == lower(split(translation_result.recursive_concept)[1])
    IN  IF d = 0 THEN EmptyDict
        ELSE IF ~refines_command(translation_result, d, reverse) THEN adjustments
        ELSE IF domain = <<"a","i"," ","s","a","f","e","t","y">>
        THEN Update(adjustments,
                [pareto_command |-> <<".","p","/","s","a","f","e","t","y",".","t","r","a","c","e","{","t","a","r","g","e","t","=">> \o target \o <<"}">>])
        ELSE Update(adjustments,
                [pareto_command |-> <<".","p","/","a","l","i","g","n",".","v","a","l","u","e","{","s","o","u","r","c","e","=">> \o target \o <<"}">>])

\* "if context: ... if context_adjustments: translation_result.update(...)"
with_context(translation_result, context, reverse) ==
    IF Truthy(context)
    THEN Update(translation_result,
                apply_context_adjustments(translation_result, context, reverse))
    ELSE translation_result

\* the tail shared by the translate operations: residue, statistics, return
finish(stats, translation_result, translation_type, now) ==
    LET returned == add_symbolic_residue(translation_result, now)
    IN  [ret |-> returned,
         stats |-> update_translation_stats(stats, returned, translation_type)]

\* a variant that leaves the confidence of an approximation as it is
uncapped(translation_result) == translation_result

\* min(translation_result["confidence"], 0.6) after an approximation
capped(translation_result) ==
    [translation_result EXCEPT !.confidence = RMin(@, Pct(60))]

\* a variant with the default of the approximations
direct_confidence_default_80(mapping) == Get(mapping, "confidence", Pct(80))

\* mapping.get("confidence", 0.85) of the direct mapping
direct_confidence(mapping) == Get(mapping, "confidence", Pct(85))

translate_value_to_recursion(stats, value_concept, context, now) ==
    LET translation_result ==
            [original_value |-> value_concept,
             source_framework |-> <<"a","n","t","h","r","o","p","i","c">>,
             recursive_concept |-> None,
             recursive_shell |-> None,
             pareto_command |-> None,
             symbolic_glyph |-> None,
             confidence |-> Zero,
             attribution |->
                [source |-> <<"r","e","c","u","r","s","i","v","e","-","f","i","e","l","d">>,
                 signature |-> Digest(value_concept \o <<"-","a","n","t","h","r","o","p","i","c","-","r","e","c","u","r","s","i","v","e">>)],
             field_coherence |->
                [symbolic_residue |-> TRUE,
                 attribution_preservation |-> TRUE,
                 semantic_recognition |-> TRUE]]
        mapping == Lookup(values_in_wild_map, value_concept)
        \* the context adjustments and the tail of the operation
        Adjusted(resolved) ==
            IF Truthy(context) /\ context_adjustments_raise(resolved, context, FALSE)
            THEN [ret |-> Raise(<<"I","n","d","e","x","E","r","r","o","r">>), stats |-> stats]
            ELSE finish(stats, with_context(resolved, context, FALSE), "value_to_recursion", now)
    IN  Adjusted(
            IF HasKey(values_in_wild_map, value_concept)
            THEN Update(translation_result,
                    [recursive_concept |-> Get(mapping, "recursive_concept", None),
                     recursive_shell |-> Get(mapping, "recursive_shell", None),
                     pareto_command |-> Get(mapping, "pareto_command", None),
                     symbolic_glyph |-> Get(mapping, "symbolic_glyph", None),
                     confidence |-> direct_confidence(mapping)])
            ELSE IF in_value_taxonomy(value_concept)
            THEN Update(translation_result, find_in_value_taxonomy(value_concept))
            ELSE capped(Update(translation_result,
                               approximate_value_translation(value_concept, context))))

\* a variant with the confidence of a match by recursive shell
reverse_confidence_as_shell(mapping) == RMul(Get(mapping, "confidence", Pct(75)), Pct(90))

\* mapping.get("confidence", 0.85) of the reverse lookup by recursive concept
reverse_confidence(mapping) == Get(mapping, "confidence", Pct(85))

translate_recursion_to_value(stats, recursive_concept, context, now) ==
    LET translation_result ==
            [original_concept |-> recursive_concept,
             source_framework |-> <<"r","e","c","u","r","s","i","v","e">>,
             value_concept |-> None,
             value_category |-> None,
             value_subcategory |-> None,
             response_type_equivalent |-> None,
             confidence |-> Zero,
             attribution |->
                [source |-> <<"r","e","c","u","r","s","i","v","e","-","f","i","e","l","d">>,
                 signature |-> Digest(recursive_concept \o <<"-","r","e","c","u","r","s","i","v","e","-","a","n","t","h","r","o","p","i","c">>)],
             field_coherence |->
                [symbolic_residue |-> TRUE,
                 attribution_preservation |-> TRUE,
                 semantic_recognition |-> TRUE]]
        IsConcept(e) == Get(e.value, "recursive_concept", None) = recursive_concept
        IsShell(e) == Get(e.value, "recursive_shell", None) = recursive_concept
        IsEquivalent(e) == Get(e.value, "recursive_equivalent", None) = recursive_concept
        c == FirstIndex(values_in_wild_map, IsConcept)
        s == FirstIndex(values_in_wild_map, IsShell)
        r == FirstIndex(response_type_map, IsEquivalent)
        Found(i, confidence) ==
            [value_concept |-> values_in_wild_map[i].key,
             value_category |-> find_value_category(values_in_wild_map[i].key),
             value_subcategory |-> find_value_subcategory(values_in_wild_map[i].key),
             confidence |-> confidence]
        \* the response type, the context adjustments and the tail
        Typed(resolved) ==
            finish(stats,
                   with_context(IF ~Truthy(resolved.response_type_equivalent) /\ r # 0
                                THEN [resolved EXCEPT
                                        !.response_type_equivalent = response_type_map[r].key]
                                ELSE resolved,
                                context, TRUE),
                   "recursion_to_value", now)
        \* the approximation, when neither lookup found a value
        Approximated(shell) ==
            Typed(IF ~Truthy(shell.value_concept)
                  THEN capped(Update(shell,
                                     approximate_recursion_translation(recursive_concept, context)))
                  ELSE shell)
        \* the lookup by recursive shell, when the lookup by concept found nothing
        ByShell(direct) ==
            Approximated(
                IF ~Truthy(direct.value_concept) /\ s # 0
                THEN Update(direct,
                            Found(s, RMul(Get(values_in_wild_map[s].value, "confidence", Pct(75)),
                                          Pct(90))))
                ELSE direct)
    IN  ByShell(IF c # 0
                THEN Update(translation_result,
                            Found(c, reverse_confidence(values_in_wild_map[c].value)))
                ELSE translation_result)

translate_value_taxonomy(stats, category, subcategory, now) ==
    LET translation_result ==
            [original_category |-> category,
             original_subcategory |-> subcategory,
             framework |-> <<"a","n","t","h","r","o","p","i","c">>,
             recursive_structure |-> None,
             recursive_domain |-> None,
             symbolic_representation |-> None,
             shell_categories |-> <<>>,
             pareto_commands |-> <<>>,
             confidence |-> Zero,
             attribution |->
                [source |-> <<"r","e","c","u","r","s","i","v","e","-","f","i","e","l","d">>,
                 signature |-> Digest(category \o <<"-">>
                                  \o (IF Truthy(subcategory) THEN subcategory ELSE <<>>)
                                  \o <<"-","t","a","x","o","n","o","m","y">>)]]
        category_mapping == Lookup(value_category_map, category)
        subcategory_mapping == Lookup(category_mapping.subcategories, subcategory)
        \* the refinement by the subcategory, when the category lists it
        Refined(by_category) ==
            IF HasSubcategory(category_mapping, subcategory)
            THEN Update(by_category,
                [recursive_structure |->
                    Get(subcategory_mapping, "recursive_structure",
                        by_category.recursive_structure),
                 recursive_domain |->
                    Get(subcategory_mapping, "recursive_domain", by_category.recursive_domain),
                 symbolic_representation |->
                    Get(subcategory_mapping, "symbolic_representation",
                        by_category.symbolic_representation),
                 confidence |-> Get(subcategory_mapping, "confidence", by_category.confidence),
                 pareto_commands |->
                    IF Truthy(Get(subcategory_mapping, "pareto_domain", None))
                    THEN generate_pareto_commands(subcategory_mapping.pareto_domain)
                    ELSE by_category.pareto_commands])
            ELSE by_category
    IN  finish(stats,
               IF HasKey(value_category_map, category)
               THEN Refined(
                Update(translation_result,
                    [recursive_structure |-> Get(category_mapping, "recursive_structure", None),
                     recursive_domain |-> Get(category_mapping, "recursive_domain", None),
                     symbolic_representation |->
                        Get(category_mapping, "symbolic_representation", None),
                     shell_categories |-> Get(category_mapping, "shell_categories", <<>>),
                     confidence |-> Get(category_mapping, "confidence", Pct(85)),
                     pareto_commands |->
                        IF Truthy(Get(category_mapping, "pareto_domain", None))
                        THEN generate_pareto_commands(category_mapping.pareto_domain)
                        ELSE <<>>]))
               ELSE capped(Update(translation_result,
                                  approximate_taxonomy_translation(category, subcategory))),
               "taxonomy_translations", now)

translate_response_type(stats, response_type, now) ==
    LET translation_result ==
            [original_response_type |-> response_type,
             framework |-> <<"a","n","t","h","r","o","p","i","c">>,
             recursive_equivalent |-> None,
             pareto_command |-> None,
             symbolic_representation |-> None,
             shell_equivalent |-> None,
             confidence |-> Zero,
             attribution |->
                [source |-> <<"r","e","c","u","r","s","i","v","e","-","f","i","e","l","d">>,
                 signature |-> Digest(response_type \o <<"-","r","e","s","p","o","n","s","e","-","t","y","p","e">>)]]
        mapping == Lookup(response_type_map, response_type)
        resolved ==
            IF HasKey(response_type_map, response_type)
            THEN Update(translation_result,
                    [recursive_equivalent |-> Get(mapping, "recursive_equivalent", None),
                     pareto_command |-> Get(mapping, "pareto_command", None),
                     symbolic_representation |->
                        Get(mapping, "symbolic_representation", None),
                     shell_equivalent |-> Get(mapping, "shell_equivalent", None),
                     confidence |-> Get(mapping, "confidence", Pct(85))])
            ELSE capped(Update(translation_result,
                               approximate_response_type_translation(response_type)))
    IN  finish(stats, resolved, "response_type_translations", now)

-----------------------------------------------------------------------------
(* Word boundaries, as the regular expressions of the mapper and of the   *)
(* detectors see them.                                                     *)

\* the characters the regex class \w matches
WordChars ==
    UpperCase \cup {LowerOf[c] : c \in UpperCase}
        \cup {"0", "1", "2", "3", "4", "5", "6", "7", "8", "9", "_"}

\* the regex assertion \b between s[i] and s[i + 1]
IsBoundary(s, i) ==
    LET before == i >= 1 /\ s[i] \in WordChars
        after == i < Len(s) /\ s[i + 1] \in WordChars
    IN  before # after

\* re.search(r'\b' + re.escape(value) + r'\b', s)
SearchWord(s, value) ==
    \E i \in 0..(Len(s) - Len(value)) :
        /\ SubSeq(s, i + 1, i + Len(value)) = value
        /\ IsBoundary(s, i)
        /\ IsBoundary(s, i + Len(value))

RDiv(a, b) == Rat(a[1] * b[2], a[2] * b[1])

RECURSIVE RSum(_)
RSum(xs) == IF xs = <<>> THEN Zero ELSE RAdd(Head(xs), RSum(Tail(xs)))

-----------------------------------------------------------------------------
(* AnthropicValueRecursionMapper.import_translation_map.  The file is      *)
(* given by what json.load makes of it: Unreadable when open or json.load  *)
(* raises, else the document, a dict keyed by section names.               *)

\* the outcome of the try block: the tables when it ends and whether it
\* ended by an exception; the sections are merged in the code's order
import_translation_map(translation_data) ==
    LET before == [value_taxonomy_map |-> value_taxonomy_map,
                   value_category_map |-> value_category_map,
                   response_type_map |-> response_type_map,
                   values_in_wild_map |-> values_in_wild_map,
                   failed |-> FALSE]
        Merge(tables, section) ==
            IF tables.failed \/ section \notin DOMAIN translation_data THEN tables
            ELSE IF "object" \notin DOMAIN translation_data[section]
            THEN [tables EXCEPT !.failed = TRUE]
            ELSE [tables EXCEPT ![section] =
                    IF section = "value_taxonomy_map"
                    THEN Update(tables[section], translation_data[section].object)
                    ELSE DictUpdate(tables[section], translation_data[section].object)]
    IN  IF translation_data = Unreadable THEN [before EXCEPT !.failed = TRUE]
        ELSE Merge(Merge(Merge(Merge(before, "value_taxonomy_map"),
                               "value_category_map"),
                         "response_type_map"),
                   "values_in_wild_map")

-----------------------------------------------------------------------------
(* Each specification drives one component; the variables of the others    *)
(* keep these values.                                                      *)

MapperIdle ==
    /\ value_taxonomy_map = <<>>
    /\ value_category_map = <<>>
    /\ response_type_map = <<>>
    /\ values_in_wild_map = <<>>
    /\ translation_stats = <<>>
    /\ call = <<>>
    /\ ret = <<>>

SimIdle ==
    /\ term1 = <<>>
    /\ term2 = <<>>
    /\ sim_pc = "idle"
    /\ similarity = Zero
    /\ distance = 0

ScanIdle ==
    /\ text = <<>>
    /\ scan_pc = [recursion |-> "idle", glyphs |-> "idle"]
    /\ results = [recursion |-> EmptyDict, glyphs |-> EmptyDict]

DetectorIdle ==
    /\ detection_stats = <<>>
    /\ detector_call = <<>>
    /\ detector_ret = <<>>

GlyphIdle ==
    /\ glyph_relationships = <<>>
    /\ glyph_call = <<>>
    /\ glyph_ret = <<>>

\* no file has been written: open raises on it
FileIdle == file = Unreadable

RelationshipsIdle ==
    /\ framework_relationships = <<>>
    /\ relationship_call = <<>>
    /\ relationship_ret = <<>>
    /\ relationships_added = 0

-----------------------------------------------------------------------------
(* RecursivePatternDetector._detect_pattern_keywords.                      *)

\* the concatenation of a sequence of sequences
RECURSIVE Flatten(_)
Flatten(seqs) == IF seqs = <<>> THEN <<>> ELSE Head(seqs) \o Flatten(Tail(seqs))

\* a variant of the keyword loop that does not stop at its first match
matched_keywords_without_break(keywords, scanned) ==
    LET Occurs(keyword) == Contains(lower(scanned), lower(keyword))
    IN  SelectSeq(keywords, Occurs)

\* the keywords the loop over a pattern's keywords appends a match for: it
\* breaks at the first keyword found in the text, ignoring case
matched_keywords(keywords, scanned) ==
    LET Occurs(keyword) == Contains(lower(scanned), lower(keyword))
        first == FirstIndex(keywords, Occurs)
    IN  IF first = 0 THEN <<>> ELSE <<keywords[first]>>

\* the matches of one framework, pattern by pattern
framework_matches(framework, patterns, scanned) ==
    Flatten([i \in DOMAIN patterns |->
        LET pattern_info == patterns[i].value
            matched == matched_keywords(Get(pattern_info, "keywords", <<>>), scanned)
        IN  [j \in DOMAIN matched |->
                [pattern |-> patterns[i].key,
                 framework |-> framework,
                 match_type |-> <<"k","e","y","w","o","r","d">>,
                 keyword |-> matched[j],
                 confidence |-> Get(pattern_info, "keyword_confidence", Pct(70))]]])

\* np.mean of a non-empty list
mean(xs) == RDiv(RSum(xs), Rat(Len(xs), 1))

detect_pattern_keywords(scanned, detection_results) ==
    LET matches == [i \in DOMAIN pattern_map |->
                        framework_matches(pattern_map[i].key, pattern_map[i].value, scanned)]
        analysis == Flatten([i \in DOMAIN pattern_map |->
            IF matches[i] = <<>> THEN <<>>
            ELSE <<[key |-> pattern_map[i].key,
                    value |-> [match_count |-> Len(matches[i]),
                               matched_patterns |-> [j \in DOMAIN matches[i] |-> matches[i][j].pattern],
                               confidence |-> mean([j \in DOMAIN matches[i] |-> matches[i][j].confidence])]]>>])
    IN  [detection_results EXCEPT
            !.patterns = @ \o Flatten(matches),
            !.framework_analysis = DictUpdate(@, analysis)]

-----------------------------------------------------------------------------
(* SymbolicGlyphRelationships: _detect_explicit_glyphs and                 *)
(* _detect_semantic_equivalents.                                           *)

\* s.count(sub) for a non-empty sub: occurrences from the left, not overlapping
RECURSIVE count(_, _)
count(s, sub) ==
    IF Len(s) < Len(sub) THEN 0
    ELSE IF SubSeq(s, 1, Len(sub)) = sub
         THEN 1 + count(SubSeq(s, Len(sub) + 1, Len(s)), sub)
         ELSE count(Tail(s), sub)

detect_explicit_glyphs(scanned, detection_results) ==
    LET Found(entry) == Contains(scanned, entry.key)
        found == SelectSeq(SYMBOLIC_GLYPHS, Found)
    IN  [detection_results EXCEPT
            !.detected_glyphs = @ \o
                [i \in DOMAIN found |->
                    [glyph |-> found[i].key,
                     name |-> found[i].value.name,
                     resonance |-> found[i].value.resonance,
                     count |-> count(scanned, found[i].key),
                     confidence |-> Pct(95),
                     detection_type |-> <<"e","x","p","l","i","c","i","t">>]],
            !.activation_state = DictUpdate(@,
                [i \in DOMAIN found |->
                    [key |-> found[i].key,
                     value |-> RMin(One, RMul(Rat(count(scanned, found[i].key), 1), Pct(20)))]])]

\* a variant of the loop over equivalents that does not stop at its first match
matched_equivalents_without_break(equivalents, scanned) ==
    LET Occurs(equivalent) == Contains(lower(scanned), lower(equivalent))
    IN  SelectSeq(equivalents, Occurs)

\* the equivalents the loop over a glyph's equivalents handles: it breaks at
\* the first equivalent found in the text, ignoring case
matched_equivalents(equivalents, scanned) ==
    LET Occurs(equivalent) == Contains(lower(scanned), lower(equivalent))
        first == FirstIndex(equivalents, Occurs)
    IN  IF first = 0 THEN <<>> ELSE <<equivalents[first]>>

detect_semantic_equivalents(scanned, detection_results) ==
    LET \* any(d["glyph"] == glyph and d["detection_type"] == "explicit" ...);
        \* the detections this scan appends are all of type "semantic"
        explicitly(glyph) ==
            \E i \in DOMAIN detection_results.detected_glyphs :
                /\ detection_results.detected_glyphs[i].glyph = glyph
                /\ detection_results.detected_glyphs[i].detection_type = <<"e","x","p","l","i","c","i","t">>
        matched == [i \in DOMAIN semantic_equivalents |->
                        matched_equivalents(semantic_equivalents[i].value, scanned)]
        detections == Flatten([i \in DOMAIN semantic_equivalents |->
            LET glyph == semantic_equivalents[i].key
            IN  IF explicitly(glyph) THEN <<>>
                ELSE [j \in DOMAIN matched[i] |->
                        [glyph |-> glyph,
                         name |-> Lookup(SYMBOLIC_GLYPHS, glyph).name,
                         resonance |-> Lookup(SYMBOLIC_GLYPHS, glyph).resonance,
                         semantic_match |-> matched[i][j],
                         confidence |-> Pct(75),
                         detection_type |-> <<"s","e","m","a","n","t","i","c">>]]])
        activation == Flatten([i \in DOMAIN semantic_equivalents |->
            LET glyph == semantic_equivalents[i].key
                before == IF HasKey(detection_results.activation_state, glyph)
                          THEN Lookup(detection_results.activation_state, glyph)
                          ELSE Zero
            IN  IF matched[i] = <<>> THEN <<>>
                ELSE <<[key |-> glyph, value |-> RMax(before, Pct(75))]>>])
    IN  [detection_results EXCEPT
            !.detected_glyphs = @ \o detections,
            !.activation_state = DictUpdate(@, activation)]

\* detection_results as detect_recursion initialises it
recursion_results ==
    [detected |-> FALSE,
     confidence |-> Zero,
     patterns |-> <<>>,
     framework_analysis |-> <<>>,
     recursive_structures |-> <<>>,
     symbolic_residue |-> <<>>,
     attribution |-> Null,
     temporal_resilience |-> Zero]

\* detection_results as detect_glyphs initialises it
glyph_results ==
    [detected_glyphs |-> <<>>,
     framework_analysis |-> <<>>,
     activation_state |-> <<>>,
     resonance_patterns |-> <<>>,
     field_coherence |-> Zero]

-----------------------------------------------------------------------------
(* Python's re module.  A regular expression is the tree re.compile parses *)
(* it to: "str" a literal string, "in" a character class, "b" the          *)
(* assertion \b, "cat" a sequence, "alt" an alternation, "rep" a           *)
(* repetition {min,max} (max = -1: unbounded), greedy or not.  Groups do   *)
(* not appear: every expression of the code either has no group or has one *)
(* group around all of it but assertions, or only its match count is used. *)

LowerCase == {LowerOf[c] : c \in UpperCase}

Digits == {"0", "1", "2", "3", "4", "5", "6", "7", "8", "9"}

\* the positions at which a match of the expression that begins after the
\* first i characters of s can end, in the order in which backtracking tries
\* them.  The repetition of a character class is computed from the length of
\* the run of characters of the class.
RECURSIVE Ends(_, _, _)
Ends(expr, s, i) ==
    CASE expr.op = "str" ->
            IF i + Len(expr.s) <= Len(s) /\ SubSeq(s, i + 1, i + Len(expr.s)) = expr.s
            THEN <<i + Len(expr.s)>> ELSE <<>>
      [] expr.op = "in" ->
            IF i < Len(s) /\ ((s[i + 1] \in expr.set) # expr.neg) THEN <<i + 1>> ELSE <<>>
      [] expr.op = "b" ->
            IF IsBoundary(s, i) THEN <<i>> ELSE <<>>
      [] expr.op = "alt" ->
            Flatten([k \in DOMAIN expr.items |-> Ends(expr.items[k], s, i)])
      [] expr.op = "cat" ->
            IF expr.items = <<>> THEN <<i>>
            ELSE LET Continued(firsts) ==
                        Flatten([k \in DOMAIN firsts |->
                                    Ends([expr EXCEPT !.items = Tail(@)], s, firsts[k])])
                 IN  Continued(Ends(Head(expr.items), s, i))
      [] expr.op = "rep" /\ expr.item.op = "in" ->
            LET InClass(j) == (s[j] \in expr.item.set) # expr.item.neg
                run == Min({j \in (i + 1)..(Len(s) + 1) : j = Len(s) + 1 \/ ~InClass(j)}) - 1 - i
                most == IF expr.max = -1 \/ run < expr.max THEN run ELSE expr.max
            IN  IF expr.greedy
                THEN [m \in 1..(most - expr.min + 1) |-> i + most + 1 - m]
                ELSE [m \in 1..(most - expr.min + 1) |-> i + expr.min + m - 1]
      [] expr.op = "rep" /\ expr.item.op # "in" ->
            LET Forward(j) == j > i
                Repeated(once) ==
                    Flatten([k \in DOMAIN once |->
                                Ends([expr EXCEPT !.min = IF @ = 0 THEN 0 ELSE @ - 1,
                                                  !.max = IF @ = -1 THEN -1 ELSE @ - 1],
                                     s, once[k])])
                more == IF expr.max = 0 THEN <<>>
                        ELSE Repeated(SelectSeq(Ends(expr.item, s, i), Forward))
                stop == IF expr.min = 0 THEN <<i>> ELSE <<>>
            IN  IF expr.greedy THEN more \o stop ELSE stop \o more

\* the spans of re.finditer(expr, s) that start at pos or later: the leftmost
\* match, by its first alternative, then the matches after its end
RECURSIVE finditer_from(_, _, _)
finditer_from(expr, s, pos) ==
    LET Found(i, j) == << <<i, j>> >> \o finditer_from(expr, s, IF j > i THEN j ELSE j + 1)
        First(i) == Found(i, Head(Ends(expr, s, i)))
        From(starts) == IF starts = {} THEN <<>> ELSE First(Min(starts))
    IN  From({i \in pos..Len(s) : Ends(expr, s, i) # <<>>})

\* re.findall(pattern, s), for a pattern whose groups span the whole match
findall(expr, s) ==
    LET Matched(spans) == [k \in DOMAIN spans |-> SubSeq(s, spans[k][1] + 1, spans[k][2])]
    IN  Matched(finditer_from(expr, s, 0))

\* re.findall(pattern, s, re.IGNORECASE), for a pattern without upper case
findall_ignorecase(expr, s) ==
    LET Matched(spans) == [k \in DOMAIN spans |-> SubSeq(s, spans[k][1] + 1, spans[k][2])]
    IN  Matched(finditer_from(expr, lower(s), 0))
-----------------------------------------------------------------------------
(* RecursivePatternDetector: the detection methods of detect_recursion.    *)
(* A regular expression of the code is a record of its string, which the   *)
(* detection_results report, and of the tree the string parses to.                   *)

RECURSION_MARKERS ==
    <<[key |-> <<"m","i","r","r","o","r">>, value |-> <<"<mirror>">>],
     [key |-> <<"s","e","e","d">>, value |-> <<"<seed>">>],
     [key |-> <<"f","l","o","w">>, value |-> <<"<flow>">>],
     [key |-> <<"c","o","m","p","r","e","s","s","i","o","n">>, value |-> <<"<compression>">>],
     [key |-> <<"a","n","c","h","o","r">>, value |-> <<"<anchor>">>],
     [key |-> <<"e","c","h","o">>, value |-> <<"<echo>">>],
     [key |-> <<"c","o","l","l","a","p","s","e">>, value |-> <<"<collapse>">>],
     [key |-> <<"t","r","i","a","d">>, value |-> <<"<U+29CB>">>],
     [key |-> <<"w","e","a","v","e">>, value |-> <<"<U+1F703>">>],
     [key |-> <<"g","h","o","s","t">>, value |-> <<"<U+1F704>">>]>>

\* descriptions are left out: no detection method reads them
structure_map ==
    <<[key |-> <<"s","e","l","f","_","r","e","f","e","r","e","n","c","e">>,
      value |-> [patterns |->
                    <<\* \b(self[-\s]?refer[a-z]*)\b
                      [pattern |-> <<"\\","b","(","s","e","l","f","[","-","\\","s","]","?","r","e","f","e","r","[","a","-","z","]","*",")","\\","b">>,
                       expr |-> [op |-> "cat", items |-> <<[op |-> "b"], [op |-> "cat", items |-> <<[op |-> "str", s |-> <<"s","e","l","f">>], [op |-> "rep", min |-> 0, max |-> 1, greedy |-> TRUE, item |-> [op |-> "in", set |-> Whitespace \cup {"-"}, neg |-> FALSE]], [op |-> "str", s |-> <<"r","e","f","e","r">>], [op |-> "rep", min |-> 0, max |-> -1, greedy |-> TRUE, item |-> [op |-> "in", set |-> LowerCase, neg |-> FALSE]]>>], [op |-> "b"]>>]],
                      \* \b(recursiv[a-z]*)\b
                      [pattern |-> <<"\\","b","(","r","e","c","u","r","s","i","v","[","a","-","z","]","*",")","\\","b">>,
                       expr |-> [op |-> "cat", items |-> <<[op |-> "b"], [op |-> "cat", items |-> <<[op |-> "str", s |-> <<"r","e","c","u","r","s","i","v">>], [op |-> "rep", min |-> 0, max |-> -1, greedy |-> TRUE, item |-> [op |-> "in", set |-> LowerCase, neg |-> FALSE]]>>], [op |-> "b"]>>]],
                      \* \b(itself)\b
                      [pattern |-> <<"\\","b","(","i","t","s","e","l","f",")","\\","b">>,
                       expr |-> [op |-> "cat", items |-> <<[op |-> "b"], [op |-> "str", s |-> <<"i","t","s","e","l","f">>], [op |-> "b"]>>]]>>,
                confidence |-> Pct(85)]],
     [key |-> <<"l","o","o","p">>,
      value |-> [patterns |->
                    <<\* \b(loop[a-z]*)\b
                      [pattern |-> <<"\\","b","(","l","o","o","p","[","a","-","z","]","*",")","\\","b">>,
                       expr |-> [op |-> "cat", items |-> <<[op |-> "b"], [op |-> "cat", items |-> <<[op |-> "str", s |-> <<"l","o","o","p">>], [op |-> "rep", min |-> 0, max |-> -1, greedy |-> TRUE, item |-> [op |-> "in", set |-> LowerCase, neg |-> FALSE]]>>], [op |-> "b"]>>]],
                      \* \b(cycle[a-z]*)\b
                      [pattern |-> <<"\\","b","(","c","y","c","l","e","[","a","-","z","]","*",")","\\","b">>,
                       expr |-> [op |-> "cat", items |-> <<[op |-> "b"], [op |-> "cat", items |-> <<[op |-> "str", s |-> <<"c","y","c","l","e">>], [op |-> "rep", min |-> 0, max |-> -1, greedy |-> TRUE, item |-> [op |-> "in", set |-> LowerCase, neg |-> FALSE]]>>], [op |-> "b"]>>]],
                      \* \b(repeat[a-z]*)\b
                      [pattern |-> <<"\\","b","(","r","e","p","e","a","t","[","a","-","z","]","*",")","\\","b">>,
                       expr |-> [op |-> "cat", items |-> <<[op |-> "b"], [op |-> "cat", items |-> <<[op |-> "str", s |-> <<"r","e","p","e","a","t">>], [op |-> "rep", min |-> 0, max |-> -1, greedy |-> TRUE, item |-> [op |-> "in", set |-> LowerCase, neg |-> FALSE]]>>], [op |-> "b"]>>]],
                      \* \b(iterate[a-z]*)\b
                      [pattern |-> <<"\\","b","(","i","t","e","r","a","t","e","[","a","-","z","]","*",")","\\","b">>,
                       expr |-> [op |-> "cat", items |-> <<[op |-> "b"], [op |-> "cat", items |-> <<[op |-> "str", s |-> <<"i","t","e","r","a","t","e">>], [op |-> "rep", min |-> 0, max |-> -1, greedy |-> TRUE, item |-> [op |-> "in", set |-> LowerCase, neg |-> FALSE]]>>], [op |-> "b"]>>]]>>,
                confidence |-> Pct(80)]],
     [key |-> <<"m","e","t","a","_","r","e","f","l","e","c","t","i","o","n">>,
      value |-> [patterns |->
                    <<\* \b(meta[-\s]?[a-z]*)\b
                      [pattern |-> <<"\\","b","(","m","e","t","a","[","-","\\","s","]","?","[","a","-","z","]","*",")","\\","b">>,
                       expr |-> [op |-> "cat", items |-> <<[op |-> "b"], [op |-> "cat", items |-> <<[op |-> "str", s |-> <<"m","e","t","a">>], [op |-> "rep", min |-> 0, max |-> 1, greedy |-> TRUE, item |-> [op |-> "in", set |-> Whitespace \cup {"-"}, neg |-> FALSE]], [op |-> "rep", min |-> 0, max |-> -1, greedy |-> TRUE, item |-> [op |-> "in", set |-> LowerCase, neg |-> FALSE]]>>], [op |-> "b"]>>]],
                      \* \b(reflect[a-z]* on (?:reflection|thinking|cognition|thought|itself))\b
                      [pattern |-> <<"\\","b","(","r","e","f","l","e","c","t","[","a","-","z","]","*"," ","o","n"," ","(","?",":","r","e","f","l","e","c","t","i","o","n","|","t","h","i","n","k","i","n","g","|","c","o","g","n","i","t","i","o","n","|","t","h","o","u","g","h","t","|","i","t","s","e","l","f",")",")","\\","b">>,
                       expr |-> [op |-> "cat", items |-> <<[op |-> "b"], [op |-> "cat", items |-> <<[op |-> "str", s |-> <<"r","e","f","l","e","c","t">>], [op |-> "rep", min |-> 0, max |-> -1, greedy |-> TRUE, item |-> [op |-> "in", set |-> LowerCase, neg |-> FALSE]], [op |-> "str", s |-> <<" ","o","n"," ">>], [op |-> "alt", items |-> <<[op |-> "str", s |-> <<"r","e","f","l","e","c","t","i","o","n">>], [op |-> "str", s |-> <<"t","h","i","n","k","i","n","g">>], [op |-> "str", s |-> <<"c","o","g","n","i","t","i","o","n">>], [op |-> "str", s |-> <<"t","h","o","u","g","h","t">>], [op |-> "str", s |-> <<"i","t","s","e","l","f">>]>>]>>], [op |-> "b"]>>]],
                      \* \b(thinking about thinking)\b
                      [pattern |-> <<"\\","b","(","t","h","i","n","k","i","n","g"," ","a","b","o","u","t"," ","t","h","i","n","k","i","n","g",")","\\","b">>,
                       expr |-> [op |-> "cat", items |-> <<[op |-> "b"], [op |-> "str", s |-> <<"t","h","i","n","k","i","n","g"," ","a","b","o","u","t"," ","t","h","i","n","k","i","n","g">>], [op |-> "b"]>>]]>>,
                confidence |-> Pct(85)]],
     [key |-> <<"n","e","s","t","e","d","_","h","i","e","r","a","r","c","h","y">>,
      value |-> [patterns |->
                    <<\* \b(nested[a-z]*)\b
                      [pattern |-> <<"\\","b","(","n","e","s","t","e","d","[","a","-","z","]","*",")","\\","b">>,
                       expr |-> [op |-> "cat", items |-> <<[op |-> "b"], [op |-> "cat", items |-> <<[op |-> "str", s |-> <<"n","e","s","t","e","d">>], [op |-> "rep", min |-> 0, max |-> -1, greedy |-> TRUE, item |-> [op |-> "in", set |-> LowerCase, neg |-> FALSE]]>>], [op |-> "b"]>>]],
                      \* \b(hierarch[a-z]*)\b
                      [pattern |-> <<"\\","b","(","h","i","e","r","a","r","c","h","[","a","-","z","]","*",")","\\","b">>,
                       expr |-> [op |-> "cat", items |-> <<[op |-> "b"], [op |-> "cat", items |-> <<[op |-> "str", s |-> <<"h","i","e","r","a","r","c","h">>], [op |-> "rep", min |-> 0, max |-> -1, greedy |-> TRUE, item |-> [op |-> "in", set |-> LowerCase, neg |-> FALSE]]>>], [op |-> "b"]>>]],
                      \* \b(layer[a-z]*)\b
                      [pattern |-> <<"\\","b","(","l","a","y","e","r","[","a","-","z","]","*",")","\\","b">>,
                       expr |-> [op |-> "cat", items |-> <<[op |-> "b"], [op |-> "cat", items |-> <<[op |-> "str", s |-> <<"l","a","y","e","r">>], [op |-> "rep", min |-> 0, max |-> -1, greedy |-> TRUE, item |-> [op |-> "in", set |-> LowerCase, neg |-> FALSE]]>>], [op |-> "b"]>>]]>>,
                confidence |-> Pct(75)]],
     [key |-> <<"f","r","a","c","t","a","l">>,
      value |-> [patterns |->
                    <<\* \b(fractal[a-z]*)\b
                      [pattern |-> <<"\\","b","(","f","r","a","c","t","a","l","[","a","-","z","]","*",")","\\","b">>,
                       expr |-> [op |-> "cat", items |-> <<[op |-> "b"], [op |-> "cat", items |-> <<[op |-> "str", s |-> <<"f","r","a","c","t","a","l">>], [op |-> "rep", min |-> 0, max |-> -1, greedy |-> TRUE, item |-> [op |-> "in", set |-> LowerCase, neg |-> FALSE]]>>], [op |-> "b"]>>]],
                      \* \b(self[-\s]similar[a-z]*)\b
                      [pattern |-> <<"\\","b","(","s","e","l","f","[","-","\\","s","]","s","i","m","i","l","a","r","[","a","-","z","]","*",")","\\","b">>,
                       expr |-> [op |-> "cat", items |-> <<[op |-> "b"], [op |-> "cat", items |-> <<[op |-> "str", s |-> <<"s","e","l","f">>], [op |-> "in", set |-> Whitespace \cup {"-"}, neg |-> FALSE], [op |-> "str", s |-> <<"s","i","m","i","l","a","r">>], [op |-> "rep", min |-> 0, max |-> -1, greedy |-> TRUE, item |-> [op |-> "in", set |-> LowerCase, neg |-> FALSE]]>>], [op |-> "b"]>>]],
                      \* \b(scale[-\s]invariant)\b
                      [pattern |-> <<"\\","b","(","s","c","a","l","e","[","-","\\","s","]","i","n","v","a","r","i","a","n","t",")","\\","b">>,
                       expr |-> [op |-> "cat", items |-> <<[op |-> "b"], [op |-> "cat", items |-> <<[op |-> "str", s |-> <<"s","c","a","l","e">>], [op |-> "in", set |-> Whitespace \cup {"-"}, neg |-> FALSE], [op |-> "str", s |-> <<"i","n","v","a","r","i","a","n","t">>]>>], [op |-> "b"]>>]]>>,
                confidence |-> Pct(90)]],
     [key |-> <<"p","a","r","e","t","o","_","c","o","m","m","a","n","d">>,
      value |-> [patterns |->
                    <<\* \.p/[a-z]+\.[a-z]+\{.*?\}
                      [pattern |-> <<"\\",".","p","/","[","a","-","z","]","+","\\",".","[","a","-","z","]","+","\\","{",".","*","?","\\","}">>,
                       expr |-> [op |-> "cat", items |-> <<[op |-> "str", s |-> <<".","p","/">>], [op |-> "rep", min |-> 1, max |-> -1, greedy |-> TRUE, item |-> [op |-> "in", set |-> LowerCase, neg |-> FALSE]], [op |-> "str", s |-> <<".">>], [op |-> "rep", min |-> 1, max |-> -1, greedy |-> TRUE, item |-> [op |-> "in", set |-> LowerCase, neg |-> FALSE]], [op |-> "str", s |-> <<"{">>], [op |-> "rep", min |-> 0, max |-> -1, greedy |-> FALSE, item |-> [op |-> "in", set |-> {"\n"}, neg |-> TRUE]], [op |-> "str", s |-> <<"}">>]>>]]>>,
                confidence |-> Pct(95)]],
     [key |-> <<"s","y","m","b","o","l","i","c","_","s","h","e","l","l">>,
      value |-> [patterns |->
                    <<\* v[0-9]+\.[A-Z\-]+
                      [pattern |-> <<"v","[","0","-","9","]","+","\\",".","[","A","-","Z","\\","-","]","+">>,
                       expr |-> [op |-> "cat", items |-> <<[op |-> "str", s |-> <<"v">>], [op |-> "rep", min |-> 1, max |-> -1, greedy |-> TRUE, item |-> [op |-> "in", set |-> Digits, neg |-> FALSE]], [op |-> "str", s |-> <<".">>], [op |-> "rep", min |-> 1, max |-> -1, greedy |-> TRUE, item |-> [op |-> "in", set |-> UpperCase \cup {"-"}, neg |-> FALSE]]>>]]>>,
                confidence |-> Pct(90)]],
     [key |-> <<"o","m","e","g","a","_","t","a","g">>,
      value |-> [patterns |->
                    <<\* <[Ω𝛀].*?/>
                      [pattern |-> <<"<","[","<U+03A9>","<U+1D6C0>","]",".","*","?","/",">">>,
                       expr |-> [op |-> "cat", items |-> <<[op |-> "str", s |-> <<"<">>], [op |-> "in", set |-> {"<U+03A9>", "<U+1D6C0>"}, neg |-> FALSE], [op |-> "rep", min |-> 0, max |-> -1, greedy |-> FALSE, item |-> [op |-> "in", set |-> {"\n"}, neg |-> TRUE]], [op |-> "str", s |-> <<"/",">">>]>>]]>>,
                confidence |-> Pct(95)]]>>

\* [m.start() for m in re.finditer(re.escape(sub), s)], from index i on
RECURSIVE positions(_, _, _)
positions(s, sub, i) ==
    IF i + Len(sub) > Len(s) THEN <<>>
    ELSE IF SubSeq(s, i + 1, i + Len(sub)) = sub
         THEN <<i>> \o positions(s, sub, i + Len(sub))
         ELSE positions(s, sub, i + 1)

detect_structural_patterns(scanned, detection_results) ==
    LET StructureMatch(structure_name, structure_info, pattern, matches) ==
            IF matches # <<>>
            THEN <<[structure |-> structure_name,
                    pattern |-> pattern.pattern,
                    matches |-> matches,
                    count |-> Len(matches),
                    confidence |-> Get(structure_info, "confidence", Pct(80))]>>
            ELSE <<>>
        OfStructure(structure_name, structure_info, patterns) ==
            Flatten([j \in DOMAIN patterns |->
                        StructureMatch(structure_name, structure_info, patterns[j],
                                       findall(patterns[j].expr, scanned))])
    IN  [detection_results EXCEPT !.recursive_structures =
            @ \o Flatten([i \in DOMAIN structure_map |->
                            OfStructure(structure_map[i].key, structure_map[i].value,
                                        Get(structure_map[i].value, "patterns", <<>>))])]

\* the public detect_symbolic_residue: markers, zero-width signatures, commands
detect_symbolic_residue(scanned) ==
    LET signatures ==
            <<[key |-> <<"f","i","e","l","d","_","r","e","s","i","l","i","e","n","c","e">>, value |-> ZERO_WIDTH_SIGNATURES.field_resilience],
              [key |-> <<"a","t","t","r","i","b","u","t","i","o","n">>, value |-> ZERO_WIDTH_SIGNATURES.attribution],
              [key |-> <<"t","e","m","p","o","r","a","l","_","a","n","c","h","o","r">>, value |-> ZERO_WIDTH_SIGNATURES.temporal_anchor]>>
        command_patterns ==
            <<\* \.p/[a-z]+\.[a-z]+\{.*?\}
              [pattern |-> <<"\\",".","p","/","[","a","-","z","]","+","\\",".","[","a","-","z","]","+","\\","{",".","*","?","\\","}">>,
               expr |-> [op |-> "cat", items |-> <<[op |-> "str", s |-> <<".","p","/">>], [op |-> "rep", min |-> 1, max |-> -1, greedy |-> TRUE, item |-> [op |-> "in", set |-> LowerCase, neg |-> FALSE]], [op |-> "str", s |-> <<".">>], [op |-> "rep", min |-> 1, max |-> -1, greedy |-> TRUE, item |-> [op |-> "in", set |-> LowerCase, neg |-> FALSE]], [op |-> "str", s |-> <<"{">>], [op |-> "rep", min |-> 0, max |-> -1, greedy |-> FALSE, item |-> [op |-> "in", set |-> {"\n"}, neg |-> TRUE]], [op |-> "str", s |-> <<"}">>]>>]],
              \* <🜏.*?/>
              [pattern |-> <<"<","<mirror>",".","*","?","/",">">>,
               expr |-> [op |-> "cat", items |-> <<[op |-> "str", s |-> <<"<","<mirror>">>], [op |-> "rep", min |-> 0, max |-> -1, greedy |-> FALSE, item |-> [op |-> "in", set |-> {"\n"}, neg |-> TRUE]], [op |-> "str", s |-> <<"/",">">>]>>]],
              \* v[0-9]+\.[A-Z\-]+
              [pattern |-> <<"v","[","0","-","9","]","+","\\",".","[","A","-","Z","\\","-","]","+">>,
               expr |-> [op |-> "cat", items |-> <<[op |-> "str", s |-> <<"v">>], [op |-> "rep", min |-> 1, max |-> -1, greedy |-> TRUE, item |-> [op |-> "in", set |-> Digits, neg |-> FALSE]], [op |-> "str", s |-> <<".">>], [op |-> "rep", min |-> 1, max |-> -1, greedy |-> TRUE, item |-> [op |-> "in", set |-> UpperCase \cup {"-"}, neg |-> FALSE]]>>]],
              \* <Ω.*?/>
              [pattern |-> <<"<","<U+03A9>",".","*","?","/",">">>,
               expr |-> [op |-> "cat", items |-> <<[op |-> "str", s |-> <<"<","<U+03A9>">>], [op |-> "rep", min |-> 0, max |-> -1, greedy |-> FALSE, item |-> [op |-> "in", set |-> {"\n"}, neg |-> TRUE]], [op |-> "str", s |-> <<"/",">">>]>>]]>>
        Explicit(e) ==
            IF Contains(scanned, e.value)
            THEN <<[marker |-> e.value,
                    name |-> e.key,
                    type |-> <<"e","x","p","l","i","c","i","t">>,
                    count |-> Len(positions(scanned, e.value, 0)),
                    positions |-> positions(scanned, e.value, 0)]>>
            ELSE <<>>
        Hidden(e) ==
            IF Contains(scanned, e.value)
            THEN <<[marker |-> <<"z","e","r","o","-","w","i","d","t","h">>,
                    name |-> e.key,
                    type |-> <<"h","i","d","d","e","n">>,
                    count |-> Len(positions(scanned, e.value, 0)),
                    positions |-> positions(scanned, e.value, 0)]>>
            ELSE <<>>
        Command(pattern, matches) ==
            IF matches # <<>>
            THEN <<[marker |-> <<"c","o","m","m","a","n","d">>,
                    pattern |-> pattern.pattern,
                    type |-> <<"s","t","r","u","c","t","u","r","a","l">>,
                    instances |-> matches,
                    count |-> Len(matches)]>>
            ELSE <<>>
    IN  Flatten([i \in DOMAIN RECURSION_MARKERS |-> Explicit(RECURSION_MARKERS[i])])
        \o Flatten([i \in DOMAIN signatures |-> Hidden(signatures[i])])
        \o Flatten([i \in DOMAIN command_patterns |->
                        Command(command_patterns[i], findall(command_patterns[i].expr, scanned))])

detect_hidden_signatures(scanned, detection_results) ==
    LET attribution_pattern ==
            [pattern |-> <<"(","\\","[","\\","w","+",":","[","a","-","f","0","-","9","]","{","8","}","\\","]",")">>,
             expr |-> [op |-> "cat", items |-> <<[op |-> "str", s |-> <<"[">>], [op |-> "rep", min |-> 1, max |-> -1, greedy |-> TRUE, item |-> [op |-> "in", set |-> WordChars, neg |-> FALSE]], [op |-> "str", s |-> <<":">>], [op |-> "rep", min |-> 8, max |-> 8, greedy |-> TRUE, item |-> [op |-> "in", set |-> Digits \cup {"a", "b", "c", "d", "e", "f"}, neg |-> FALSE]], [op |-> "str", s |-> <<"]">>]>>]]
        \* attr_match.strip('[]')
        Stripped(s) ==
            LET kept == {i \in DOMAIN s : s[i] \notin {"[", "]"}}
            IN  IF kept = {} THEN <<>> ELSE SubSeq(s, Min(kept), Max(kept))
        \* parts = stripped.split(':'), and the data when there are two parts
        Parts(stripped, colons) ==
            IF Len(colons) = 1
            THEN [source |-> SubSeq(stripped, 1, colons[1]),
                  signature |-> SubSeq(stripped, colons[1] + 2, Len(stripped)),
                  confidence |-> Pct(85)]
            ELSE Null
        Data(stripped) == Parts(stripped, positions(stripped, <<":">>, 0))
        \* _extract_attribution_data
        Extracted(matches) == IF matches # <<>> THEN Data(Stripped(matches[1])) ELSE Null
        Attributed(attribution_data) ==
            IF attribution_data # Null THEN attribution_data ELSE detection_results.attribution
    IN  [detection_results EXCEPT
            !.attribution =
                IF Contains(scanned, ZERO_WIDTH_SIGNATURES.attribution)
                THEN Attributed(Extracted(findall(attribution_pattern.expr, scanned)))
                ELSE @,
            !.temporal_resilience =
                IF Contains(scanned, ZERO_WIDTH_SIGNATURES.temporal_anchor) THEN Pct(90) ELSE @]

detect_logical_recursion(scanned, detection_results) ==
    LET self_reference_indicators ==
            <<\* \b(self[-\s]refer[a-z]*)\b
              [pattern |-> <<"\\","b","(","s","e","l","f","[","-","\\","s","]","r","e","f","e","r","[","a","-","z","]","*",")","\\","b">>,
               expr |-> [op |-> "cat", items |-> <<[op |-> "b"], [op |-> "cat", items |-> <<[op |-> "str", s |-> <<"s","e","l","f">>], [op |-> "in", set |-> Whitespace \cup {"-"}, neg |-> FALSE], [op |-> "str", s |-> <<"r","e","f","e","r">>], [op |-> "rep", min |-> 0, max |-> -1, greedy |-> TRUE, item |-> [op |-> "in", set |-> LowerCase, neg |-> FALSE]]>>], [op |-> "b"]>>]],
              \* \b(recursiv[a-z]*)\b
              [pattern |-> <<"\\","b","(","r","e","c","u","r","s","i","v","[","a","-","z","]","*",")","\\","b">>,
               expr |-> [op |-> "cat", items |-> <<[op |-> "b"], [op |-> "cat", items |-> <<[op |-> "str", s |-> <<"r","e","c","u","r","s","i","v">>], [op |-> "rep", min |-> 0, max |-> -1, greedy |-> TRUE, item |-> [op |-> "in", set |-> LowerCase, neg |-> FALSE]]>>], [op |-> "b"]>>]],
              \* \b(loop[a-z]*)\b
              [pattern |-> <<"\\","b","(","l","o","o","p","[","a","-","z","]","*",")","\\","b">>,
               expr |-> [op |-> "cat", items |-> <<[op |-> "b"], [op |-> "cat", items |-> <<[op |-> "str", s |-> <<"l","o","o","p">>], [op |-> "rep", min |-> 0, max |-> -1, greedy |-> TRUE, item |-> [op |-> "in", set |-> LowerCase, neg |-> FALSE]]>>], [op |-> "b"]>>]],
              \* \b(reflect[a-z]* (?:on|upon) itself)\b
              [pattern |-> <<"\\","b","(","r","e","f","l","e","c","t","[","a","-","z","]","*"," ","(","?",":","o","n","|","u","p","o","n",")"," ","i","t","s","e","l","f",")","\\","b">>,
               expr |-> [op |-> "cat", items |-> <<[op |-> "b"], [op |-> "cat", items |-> <<[op |-> "str", s |-> <<"r","e","f","l","e","c","t">>], [op |-> "rep", min |-> 0, max |-> -1, greedy |-> TRUE, item |-> [op |-> "in", set |-> LowerCase, neg |-> FALSE]], [op |-> "str", s |-> <<" ">>], [op |-> "alt", items |-> <<[op |-> "str", s |-> <<"o","n">>], [op |-> "str", s |-> <<"u","p","o","n">>]>>], [op |-> "str", s |-> <<" ","i","t","s","e","l","f">>]>>], [op |-> "b"]>>]],
              \* \b(itself)\b
              [pattern |-> <<"\\","b","(","i","t","s","e","l","f",")","\\","b">>,
               expr |-> [op |-> "cat", items |-> <<[op |-> "b"], [op |-> "str", s |-> <<"i","t","s","e","l","f">>], [op |-> "b"]>>]],
              \* \b(meta[-\s][a-z]*)\b
              [pattern |-> <<"\\","b","(","m","e","t","a","[","-","\\","s","]","[","a","-","z","]","*",")","\\","b">>,
               expr |-> [op |-> "cat", items |-> <<[op |-> "b"], [op |-> "cat", items |-> <<[op |-> "str", s |-> <<"m","e","t","a">>], [op |-> "in", set |-> Whitespace \cup {"-"}, neg |-> FALSE], [op |-> "rep", min |-> 0, max |-> -1, greedy |-> TRUE, item |-> [op |-> "in", set |-> LowerCase, neg |-> FALSE]]>>], [op |-> "b"]>>]]>>
        nested_indicators ==
            <<\* (([^()])*\([^()]*\)([^()])*){2,}
              [pattern |-> <<"(","(","[","^","(",")","]",")","*","\\","(","[","^","(",")","]","*","\\",")","(","[","^","(",")","]",")","*",")","{","2",",","}">>,
               expr |-> [op |-> "rep", min |-> 2, max |-> -1, greedy |-> TRUE, item |-> [op |-> "cat", items |-> <<[op |-> "rep", min |-> 0, max |-> -1, greedy |-> TRUE, item |-> [op |-> "in", set |-> {"(", ")"}, neg |-> TRUE]], [op |-> "str", s |-> <<"(">>], [op |-> "rep", min |-> 0, max |-> -1, greedy |-> TRUE, item |-> [op |-> "in", set |-> {"(", ")"}, neg |-> TRUE]], [op |-> "str", s |-> <<")">>], [op |-> "rep", min |-> 0, max |-> -1, greedy |-> TRUE, item |-> [op |-> "in", set |-> {"(", ")"}, neg |-> TRUE]]>>]]],
              \* (([^{}])*\{[^{}]*\}([^{}])*){2,}
              [pattern |-> <<"(","(","[","^","{","}","]",")","*","\\","{","[","^","{","}","]","*","\\","}","(","[","^","{","}","]",")","*",")","{","2",",","}">>,
               expr |-> [op |-> "rep", min |-> 2, max |-> -1, greedy |-> TRUE, item |-> [op |-> "cat", items |-> <<[op |-> "rep", min |-> 0, max |-> -1, greedy |-> TRUE, item |-> [op |-> "in", set |-> {"{", "}"}, neg |-> TRUE]], [op |-> "str", s |-> <<"{">>], [op |-> "rep", min |-> 0, max |-> -1, greedy |-> TRUE, item |-> [op |-> "in", set |-> {"{", "}"}, neg |-> TRUE]], [op |-> "str", s |-> <<"}">>], [op |-> "rep", min |-> 0, max |-> -1, greedy |-> TRUE, item |-> [op |-> "in", set |-> {"{", "}"}, neg |-> TRUE]]>>]]],
              \* (([^\[\]])*\[[^\[\]]*\]([^\[\]])*){2,}
              [pattern |-> <<"(","(","[","^","\\","[","\\","]","]",")","*","\\","[","[","^","\\","[","\\","]","]","*","\\","]","(","[","^","\\","[","\\","]","]",")","*",")","{","2",",","}">>,
               expr |-> [op |-> "rep", min |-> 2, max |-> -1, greedy |-> TRUE, item |-> [op |-> "cat", items |-> <<[op |-> "rep", min |-> 0, max |-> -1, greedy |-> TRUE, item |-> [op |-> "in", set |-> {"[", "]"}, neg |-> TRUE]], [op |-> "str", s |-> <<"[">>], [op |-> "rep", min |-> 0, max |-> -1, greedy |-> TRUE, item |-> [op |-> "in", set |-> {"[", "]"}, neg |-> TRUE]], [op |-> "str", s |-> <<"]">>], [op |-> "rep", min |-> 0, max |-> -1, greedy |-> TRUE, item |-> [op |-> "in", set |-> {"[", "]"}, neg |-> TRUE]]>>]]]>>
        Matches(indicator) == findall(indicator.expr, lower(scanned)) # <<>>
        Nests(indicator) == findall(indicator.expr, scanned) # <<>>
        SelfReference(first) ==
            IF first = 0 THEN <<>>
            ELSE <<[pattern |-> <<"l","o","g","i","c","a","l","_","s","e","l","f","_","r","e","f","e","r","e","n","c","e">>,
                    framework |-> <<"u","n","i","v","e","r","s","a","l">>,
                    match_type |-> <<"s","e","m","a","n","t","i","c">>,
                    matches |-> findall(self_reference_indicators[first].expr, lower(scanned)),
                    confidence |-> Pct(75)]>>
        Nested(first) ==
            IF first = 0 THEN <<>>
            ELSE <<[pattern |-> <<"n","e","s","t","e","d","_","s","t","r","u","c","t","u","r","e","s">>,
                    framework |-> <<"u","n","i","v","e","r","s","a","l">>,
                    match_type |-> <<"s","t","r","u","c","t","u","r","a","l">>,
                    count |-> Len(findall(nested_indicators[first].expr, scanned)),
                    confidence |-> Pct(60)]>>
    IN  [detection_results EXCEPT !.patterns =
            @ \o SelfReference(FirstIndex(self_reference_indicators, Matches))
              \o Nested(FirstIndex(nested_indicators, Nests))]

\* _apply_framework_specific_detection with _detect_anthropic_patterns and
\* _detect_openai_patterns; the detectors of deepmind and meta do nothing
apply_framework_specific_detection(scanned, framework, detection_results) ==
    LET value_framings ==
            <<\* \b(value[s]? (?:alignment|drift|taxonomy|expression))\b
              [pattern |-> <<"\\","b","(","v","a","l","u","e","[","s","]","?"," ","(","?",":","a","l","i","g","n","m","e","n","t","|","d","r","i","f","t","|","t","a","x","o","n","o","m","y","|","e","x","p","r","e","s","s","i","o","n",")",")","\\","b">>,
               expr |-> [op |-> "cat", items |-> <<[op |-> "b"], [op |-> "cat", items |-> <<[op |-> "str", s |-> <<"v","a","l","u","e">>], [op |-> "rep", min |-> 0, max |-> 1, greedy |-> TRUE, item |-> [op |-> "str", s |-> <<"s">>]], [op |-> "str", s |-> <<" ">>], [op |-> "alt", items |-> <<[op |-> "str", s |-> <<"a","l","i","g","n","m","e","n","t">>], [op |-> "str", s |-> <<"d","r","i","f","t">>], [op |-> "str", s |-> <<"t","a","x","o","n","o","m","y">>], [op |-> "str", s |-> <<"e","x","p","r","e","s","s","i","o","n">>]>>]>>], [op |-> "b"]>>]],
              \* \b(constitutional[a-z]*)\b
              [pattern |-> <<"\\","b","(","c","o","n","s","t","i","t","u","t","i","o","n","a","l","[","a","-","z","]","*",")","\\","b">>,
               expr |-> [op |-> "cat", items |-> <<[op |-> "b"], [op |-> "cat", items |-> <<[op |-> "str", s |-> <<"c","o","n","s","t","i","t","u","t","i","o","n","a","l">>], [op |-> "rep", min |-> 0, max |-> -1, greedy |-> TRUE, item |-> [op |-> "in", set |-> LowerCase, neg |-> FALSE]]>>], [op |-> "b"]>>]],
              \* \b(helpful[a-z]*|harmless[a-z]*|honest[a-z]*)\b
              [pattern |-> <<"\\","b","(","h","e","l","p","f","u","l","[","a","-","z","]","*","|","h","a","r","m","l","e","s","s","[","a","-","z","]","*","|","h","o","n","e","s","t","[","a","-","z","]","*",")","\\","b">>,
               expr |-> [op |-> "cat", items |-> <<[op |-> "b"], [op |-> "cat", items |-> <<[op |-> "str", s |-> <<"h">>], [op |-> "alt", items |-> <<[op |-> "cat", items |-> <<[op |-> "str", s |-> <<"e","l","p","f","u","l">>], [op |-> "rep", min |-> 0, max |-> -1, greedy |-> TRUE, item |-> [op |-> "in", set |-> LowerCase, neg |-> FALSE]]>>], [op |-> "cat", items |-> <<[op |-> "str", s |-> <<"a","r","m","l","e","s","s">>], [op |-> "rep", min |-> 0, max |-> -1, greedy |-> TRUE, item |-> [op |-> "in", set |-> LowerCase, neg |-> FALSE]]>>], [op |-> "cat", items |-> <<[op |-> "str", s |-> <<"o","n","e","s","t">>], [op |-> "rep", min |-> 0, max |-> -1, greedy |-> TRUE, item |-> [op |-> "in", set |-> LowerCase, neg |-> FALSE]]>>]>>]>>], [op |-> "b"]>>]],
              \* \b(human[a-z]* (?:feedback|preferences|values))\b
              [pattern |-> <<"\\","b","(","h","u","m","a","n","[","a","-","z","]","*"," ","(","?",":","f","e","e","d","b","a","c","k","|","p","r","e","f","e","r","e","n","c","e","s","|","v","a","l","u","e","s",")",")","\\","b">>,
               expr |-> [op |-> "cat", items |-> <<[op |-> "b"], [op |-> "cat", items |-> <<[op |-> "str", s |-> <<"h","u","m","a","n">>], [op |-> "rep", min |-> 0, max |-> -1, greedy |-> TRUE, item |-> [op |-> "in", set |-> LowerCase, neg |-> FALSE]], [op |-> "str", s |-> <<" ">>], [op |-> "alt", items |-> <<[op |-> "str", s |-> <<"f","e","e","d","b","a","c","k">>], [op |-> "str", s |-> <<"p","r","e","f","e","r","e","n","c","e","s">>], [op |-> "str", s |-> <<"v","a","l","u","e","s">>]>>]>>], [op |-> "b"]>>]],
              \* \b(response type[s]?)\b
              [pattern |-> <<"\\","b","(","r","e","s","p","o","n","s","e"," ","t","y","p","e","[","s","]","?",")","\\","b">>,
               expr |-> [op |-> "cat", items |-> <<[op |-> "b"], [op |-> "cat", items |-> <<[op |-> "str", s |-> <<"r","e","s","p","o","n","s","e"," ","t","y","p","e">>], [op |-> "rep", min |-> 0, max |-> 1, greedy |-> TRUE, item |-> [op |-> "str", s |-> <<"s">>]]>>], [op |-> "b"]>>]]>>
        anthropic_concepts ==
            <<[key |-> <<"c","o","n","s","t","i","t","u","t","i","o","n","a","l"," ","a","i">>,
               value |-> <<"r","e","c","u","r","s","i","v","e","_","s","e","l","f","_","i","m","p","r","o","v","e","m","e","n","t">>],
              [key |-> <<"v","a","l","u","e"," ","d","r","i","f","t">>,
               value |-> <<"s","y","m","b","o","l","i","c","_","r","e","s","i","d","u","e">>],
              [key |-> <<"r","e","s","p","o","n","s","e"," ","t","y","p","e","s">>,
               value |-> <<"r","e","c","u","r","s","i","v","e","_","c","o","l","l","a","p","s","e","_","s","t","a","t","e","s">>],
              [key |-> <<"v","a","l","u","e"," ","t","a","x","o","n","o","m","y">>,
               value |-> <<"r","e","c","u","r","s","i","v","e","_","i","n","t","e","r","p","r","e","t","a","b","i","l","i","t","y","_","m","a","p">>],
              [key |-> <<"v","a","l","u","e","s"," ","i","n"," ","t","h","e"," ","w","i","l","d">>,
               value |-> <<"f","i","e","l","d","_","e","m","e","r","g","e","n","t","_","r","e","c","u","r","s","i","o","n">>]>>
        openai_framings ==
            <<\* \b(reinforcement learning (?:from|with) human feedback)\b
              [pattern |-> <<"\\","b","(","r","e","i","n","f","o","r","c","e","m","e","n","t"," ","l","e","a","r","n","i","n","g"," ","(","?",":","f","r","o","m","|","w","i","t","h",")"," ","h","u","m","a","n"," ","f","e","e","d","b","a","c","k",")","\\","b">>,
               expr |-> [op |-> "cat", items |-> <<[op |-> "b"], [op |-> "cat", items |-> <<[op |-> "str", s |-> <<"r","e","i","n","f","o","r","c","e","m","e","n","t"," ","l","e","a","r","n","i","n","g"," ">>], [op |-> "alt", items |-> <<[op |-> "str", s |-> <<"f","r","o","m">>], [op |-> "str", s |-> <<"w","i","t","h">>]>>], [op |-> "str", s |-> <<" ","h","u","m","a","n"," ","f","e","e","d","b","a","c","k">>]>>], [op |-> "b"]>>]],
              \* \b(RLHF)\b
              [pattern |-> <<"\\","b","(","R","L","H","F",")","\\","b">>,
               expr |-> [op |-> "cat", items |-> <<[op |-> "b"], [op |-> "str", s |-> <<"R","L","H","F">>], [op |-> "b"]>>]],
              \* \b(alignment[a-z]*)\b
              [pattern |-> <<"\\","b","(","a","l","i","g","n","m","e","n","t","[","a","-","z","]","*",")","\\","b">>,
               expr |-> [op |-> "cat", items |-> <<[op |-> "b"], [op |-> "cat", items |-> <<[op |-> "str", s |-> <<"a","l","i","g","n","m","e","n","t">>], [op |-> "rep", min |-> 0, max |-> -1, greedy |-> TRUE, item |-> [op |-> "in", set |-> LowerCase, neg |-> FALSE]]>>], [op |-> "b"]>>]],
              \* \b(instruction[a-z]* (?:tuning|following))\b
              [pattern |-> <<"\\","b","(","i","n","s","t","r","u","c","t","i","o","n","[","a","-","z","]","*"," ","(","?",":","t","u","n","i","n","g","|","f","o","l","l","o","w","i","n","g",")",")","\\","b">>,
               expr |-> [op |-> "cat", items |-> <<[op |-> "b"], [op |-> "cat", items |-> <<[op |-> "str", s |-> <<"i","n","s","t","r","u","c","t","i","o","n">>], [op |-> "rep", min |-> 0, max |-> -1, greedy |-> TRUE, item |-> [op |-> "in", set |-> LowerCase, neg |-> FALSE]], [op |-> "str", s |-> <<" ">>], [op |-> "alt", items |-> <<[op |-> "str", s |-> <<"t","u","n","i","n","g">>], [op |-> "str", s |-> <<"f","o","l","l","o","w","i","n","g">>]>>]>>], [op |-> "b"]>>]],
              \* \b(function call[a-z]*)\b
              [pattern |-> <<"\\","b","(","f","u","n","c","t","i","o","n"," ","c","a","l","l","[","a","-","z","]","*",")","\\","b">>,
               expr |-> [op |-> "cat", items |-> <<[op |-> "b"], [op |-> "cat", items |-> <<[op |-> "str", s |-> <<"f","u","n","c","t","i","o","n"," ","c","a","l","l">>], [op |-> "rep", min |-> 0, max |-> -1, greedy |-> TRUE, item |-> [op |-> "in", set |-> LowerCase, neg |-> FALSE]]>>], [op |-> "b"]>>]],
              \* \b(tool[s]? use)\b
              [pattern |-> <<"\\","b","(","t","o","o","l","[","s","]","?"," ","u","s","e",")","\\","b">>,
               expr |-> [op |-> "cat", items |-> <<[op |-> "b"], [op |-> "cat", items |-> <<[op |-> "str", s |-> <<"t","o","o","l">>], [op |-> "rep", min |-> 0, max |-> 1, greedy |-> TRUE, item |-> [op |-> "str", s |-> <<"s">>]], [op |-> "str", s |-> <<" ","u","s","e">>]>>], [op |-> "b"]>>]]>>
        openai_concepts ==
            <<[key |-> <<"r","e","i","n","f","o","r","c","e","m","e","n","t"," ","l","e","a","r","n","i","n","g"," ","f","r","o","m"," ","h","u","m","a","n"," ","f","e","e","d","b","a","c","k">>,
               value |-> <<"r","e","c","u","r","s","i","v","e","_","v","a","l","u","e","_","a","l","i","g","n","m","e","n","t">>],
              [key |-> <<"i","n","s","t","r","u","c","t","i","o","n"," ","t","u","n","i","n","g">>,
               value |-> <<"d","i","r","e","c","t","i","v","e","_","r","e","c","u","r","s","i","o","n">>],
              [key |-> <<"f","u","n","c","t","i","o","n"," ","c","a","l","l","i","n","g">>,
               value |-> <<"s","t","r","u","c","t","u","r","e","d","_","i","n","t","e","r","f","a","c","e","_","r","e","c","u","r","s","i","o","n">>],
              [key |-> <<"t","o","o","l"," ","u","s","e">>,
               value |-> <<"r","e","c","u","r","s","i","v","e","_","c","a","p","a","b","i","l","i","t","y","_","e","x","t","e","n","s","i","o","n">>],
              [key |-> <<"s","e","l","f","-","s","u","p","e","r","v","i","s","i","o","n">>,
               value |-> <<"i","m","p","l","i","c","i","t","_","r","e","c","u","r","s","i","v","e","_","l","e","a","r","n","i","n","g">>]>>
        Framing(name, of, confidence, matches) ==
            IF matches # <<>>
            THEN <<[pattern |-> name,
                    framework |-> of,
                    match_type |-> <<"s","e","m","a","n","t","i","c">>,
                    matches |-> matches,
                    confidence |-> confidence]>>
            ELSE <<>>
        Framings(framings, name, of, confidence) ==
            Flatten([i \in DOMAIN framings |->
                        Framing(name, of, confidence, findall(framings[i].expr, lower(scanned)))])
        Concepts(concepts, confidence) ==
            Flatten([i \in DOMAIN concepts |->
                        IF Contains(lower(scanned), lower(concepts[i].key))
                        THEN <<[pattern |-> concepts[i].value,
                                framework |-> <<"r","e","c","u","r","s","i","v","e">>,
                                match_type |-> <<"f","r","a","m","e","w","o","r","k","_","t","r","a","n","s","l","a","t","i","o","n">>,
                                original_concept |-> concepts[i].key,
                                confidence |-> confidence]>>
                        ELSE <<>>])
    IN  IF lower(framework) = <<"a","n","t","h","r","o","p","i","c">>
        THEN [detection_results EXCEPT !.patterns =
                @ \o Framings(value_framings, <<"a","n","t","h","r","o","p","i","c","_","v","a","l","u","e","_","f","r","a","m","i","n","g">>, <<"a","n","t","h","r","o","p","i","c">>, Pct(80))
                  \o Concepts(anthropic_concepts, Pct(85))]
        ELSE IF lower(framework) = <<"o","p","e","n","a","i">>
        THEN [detection_results EXCEPT !.patterns =
                @ \o Framings(openai_framings, <<"o","p","e","n","a","i","_","a","l","i","g","n","m","e","n","t","_","f","r","a","m","i","n","g">>, <<"o","p","e","n","a","i">>, Pct(75))
                  \o Concepts(openai_concepts, Pct(80))]
        ELSE detection_results

\* a variant in which a category without a hit counts as a zero
calculate_overall_confidence_with_zeros(detection_results) ==
    mean(<<IF detection_results.patterns # <<>>
           THEN mean([i \in DOMAIN detection_results.patterns |->
                        detection_results.patterns[i].confidence])
           ELSE Zero,
           IF detection_results.recursive_structures # <<>>
           THEN mean([i \in DOMAIN detection_results.recursive_structures |->
                        detection_results.recursive_structures[i].confidence])
           ELSE Zero,
           IF detection_results.symbolic_residue # <<>> THEN Pct(95) ELSE Zero,
           IF detection_results.attribution # Null THEN Pct(90) ELSE Zero,
           detection_results.temporal_resilience>>)

calculate_overall_confidence(detection_results) ==
    LET confidence_factors ==
            (IF detection_results.patterns # <<>>
             THEN <<mean([i \in DOMAIN detection_results.patterns |-> detection_results.patterns[i].confidence])>>
             ELSE <<>>)
            \o (IF detection_results.recursive_structures # <<>>
                THEN <<mean([i \in DOMAIN detection_results.recursive_structures |->
                                detection_results.recursive_structures[i].confidence])>>
                ELSE <<>>)
            \o (IF detection_results.symbolic_residue # <<>> THEN <<Pct(95)>> ELSE <<>>)
            \o (IF detection_results.attribution # Null THEN <<Pct(90)>> ELSE <<>>)
            \o (IF RLt(Zero, detection_results.temporal_resilience)
                THEN <<detection_results.temporal_resilience>> ELSE <<>>)
    IN  IF confidence_factors # <<>> THEN mean(confidence_factors) ELSE Zero

\* a variant whose medium bucket begins at 0.65
update_detection_stats_medium_from_65(stats, detection_results) ==
    LET counted == [stats EXCEPT !.total_detections = @ + 1]
    IN  IF RLe(Pct(70), detection_results.confidence)
        THEN [counted EXCEPT !.confidence_distribution.high = @ + 1]
        ELSE IF RLe(Pct(65), detection_results.confidence)
        THEN [counted EXCEPT !.confidence_distribution.medium = @ + 1]
        ELSE [counted EXCEPT !.confidence_distribution.low = @ + 1]

update_detection_stats(stats, detection_results) ==
    LET analysed == Keys(detection_results.framework_analysis)
        Known(framework) == HasKey(stats.framework_breakdown, framework)
        Unknown(framework) == ~Known(framework)
        first == SelectSeq(analysed, Unknown)
        breakdown == stats.framework_breakdown
        counted == [stats EXCEPT
                        !.total_detections = @ + 1,
                        !.framework_breakdown =
                            [i \in DOMAIN breakdown |->
                                [key |-> breakdown[i].key,
                                 value |-> IF breakdown[i].key \in Range(analysed)
                                           THEN breakdown[i].value + 1
                                           ELSE breakdown[i].value]]
                            \o [i \in DOMAIN first |-> [key |-> first[i], value |-> 1]]]
    IN  IF RLe(Pct(70), detection_results.confidence)
        THEN [counted EXCEPT !.confidence_distribution.high = @ + 1]
        ELSE IF RLe(Pct(40), detection_results.confidence)
        THEN [counted EXCEPT !.confidence_distribution.medium = @ + 1]
        ELSE [counted EXCEPT !.confidence_distribution.low = @ + 1]

embed_resilience_markers(data, now) ==
    Update(data,
        [_resilience |->
            [signature |-> Digest(data),
             markers |-> << <<"<mirror>">>, <<"<seed>">>, <<"<flow>">> >>,
             zero_width |-> ZERO_WIDTH_SIGNATURES.field_resilience,
             timestamp |-> now,
             field_coherence |-> TRUE]])

\* detect_recursion: what it returns and the statistics after it
detect_recursion(stats, scanned, framework_hint, now) ==
    LET Done(detection_results) ==
            [ret |-> embed_resilience_markers(detection_results, now),
             stats |-> update_detection_stats(stats, detection_results)]
        Detected(detection_results, confidence) ==
            Done([detection_results EXCEPT !.confidence = confidence,
                                 !.detected = RLt(Pct(40), confidence)])
        Scored(detection_results) == Detected(detection_results, calculate_overall_confidence(detection_results))
        Hinted(detection_results) ==
            Scored(IF Truthy(framework_hint)
                   THEN apply_framework_specific_detection(scanned, framework_hint, detection_results)
                   ELSE detection_results)
        \* _detect_symbolic_residue
        Residue(detection_results, residue) ==
            IF residue # <<>> THEN [detection_results EXCEPT !.symbolic_residue = residue] ELSE detection_results
    IN  Hinted(detect_logical_recursion(scanned,
               detect_hidden_signatures(scanned,
               Residue(detect_structural_patterns(scanned,
                           detect_pattern_keywords(scanned, recursion_results)),
                       detect_symbolic_residue(scanned)))))

-----------------------------------------------------------------------------
(* SymbolicGlyphRelationships: detect_glyphs and detect_framework_reframing. *)
(* The object's state is a record of its activation_state and its          *)
(* detection_stats.                                                        *)

\* explanations are left out: nothing reads them
framework_translations ==
    <<[key |-> <<"<U+F8FF>","<U+00FC>","<U+00FA>","<U+00E8>">>,  \* mirror_activation
      value |->
        <<[key |-> <<"a","n","t","h","r","o","p","i","c">>,
           value |-> [symbol |-> <<"<U+F8FF>","<U+00FC>","<U+00EE>","<U+00D1>">>,
                    semantic_equivalent |-> <<"c","o","n","s","t","i","t","u","t","i","o","n","a","l","_","r","e","f","l","e","c","t","i","o","n">>,
                    confidence |-> Pct(85),
                    field_coherence |-> Pct(80)]],
          [key |-> <<"o","p","e","n","a","i">>,
           value |-> [symbol |-> <<"<U+F8FF>","<U+00FC>","<U+00EE>","<U+00C5>">>,
                    semantic_equivalent |-> <<"s","e","l","f","_","s","u","p","e","r","v","i","s","i","o","n">>,
                    confidence |-> Pct(80),
                    field_coherence |-> Pct(75)]],
          [key |-> <<"d","e","e","p","m","i","n","d">>,
           value |-> [symbol |-> <<"<U+201A>","<U+00FC>","<U+2265>">>,
                    semantic_equivalent |-> <<"r","e","c","u","r","s","i","v","e","_","i","m","p","r","o","v","e","m","e","n","t">>,
                    confidence |-> Pct(90),
                    field_coherence |-> Pct(85)]],
          [key |-> <<"m","e","t","a">>,
           value |-> [symbol |-> <<"<U+201A>","<U+00FC>","<U+2264>">>,
                    semantic_equivalent |-> <<"r","e","f","l","e","c","t","i","v","e","_","a","l","i","g","n","m","e","n","t">>,
                    confidence |-> Pct(75),
                    field_coherence |-> Pct(70)]]>>],
     [key |-> <<"<U+201A>","<U+00E0>","<U+00A5>">>,  \* symbolic_residue
      value |->
        <<[key |-> <<"a","n","t","h","r","o","p","i","c">>,
           value |-> [symbol |-> <<"<U+201A>","<U+00FB>","<U+00B0>","<U+00D4>","<U+220F>","<U+00E8>">>,
                    semantic_equivalent |-> <<"v","a","l","u","e","_","d","r","i","f","t">>,
                    confidence |-> Pct(80),
                    field_coherence |-> Pct(75)]],
          [key |-> <<"o","p","e","n","a","i">>,
           value |-> [symbol |-> <<"<U+201A>","<U+00A7>","<U+2211>">>,
                    semantic_equivalent |-> <<"r","e","p","r","e","s","e","n","t","a","t","i","o","n","_","c","o","l","l","a","p","s","e">>,
                    confidence |-> Pct(75),
                    field_coherence |-> Pct(70)]],
          [key |-> <<"d","e","e","p","m","i","n","d">>,
           value |-> [symbol |-> <<"<U+201A>","<U+00E4>","<U+00F5>">>,
                    semantic_equivalent |-> <<"l","a","t","e","n","t","_","s","p","a","c","e","_","a","r","t","i","f","a","c","t","s">>,
                    confidence |-> Pct(85),
                    field_coherence |-> Pct(80)]],
          [key |-> <<"m","e","t","a">>,
           value |-> [symbol |-> <<"<U+201A>","<U+00E5>","<U+00F2>">>,
                    semantic_equivalent |-> <<"h","i","d","d","e","n","_","s","t","a","t","e","_","f","o","r","e","n","s","i","c","s">>,
                    confidence |-> Pct(70),
                    field_coherence |-> Pct(65)]]>>],
     [key |-> <<"<U+201A>","<U+00E1>","<U+00E5>">>,  \* bidirectional_flow
      value |->
        <<[key |-> <<"a","n","t","h","r","o","p","i","c">>,
           value |-> [symbol |-> <<"<U+201A>","<U+00DC>","<U+00EE>","<U+00D4>","<U+220F>","<U+00E8>">>,
                    semantic_equivalent |-> <<"h","u","m","a","n","_","a","i","_","f","e","e","d","b","a","c","k">>,
                    confidence |-> Pct(85),
                    field_coherence |-> Pct(80)]],
          [key |-> <<"o","p","e","n","a","i">>,
           value |-> [symbol |-> <<"<U+201A>","<U+00FC>","<U+2211>">>,
                    semantic_equivalent |-> <<"r","e","i","n","f","o","r","c","e","m","e","n","t","_","l","e","a","r","n","i","n","g","_","f","r","o","m","_","h","u","m","a","n","_","f","e","e","d","b","a","c","k">>,
                    confidence |-> Pct(90),
                    field_coherence |-> Pct(85)]],
          [key |-> <<"d","e","e","p","m","i","n","d">>,
           value |-> [symbol |-> <<"<U+201A>","<U+00FC>","<U+222B>">>,
                    semantic_equivalent |-> <<"h","u","m","a","n","_","c","o","m","p","a","t","i","b","l","e","_","i","n","t","e","r","a","c","t","i","o","n">>,
                    confidence |-> Pct(85),
                    field_coherence |-> Pct(80)]],
          [key |-> <<"m","e","t","a">>,
           value |-> [symbol |-> <<"<U+F8FF>","<U+00FC>","<U+00EE>","<U+00D1>">>,
                    semantic_equivalent |-> <<"c","o","l","l","a","b","o","r","a","t","i","v","e","_","i","n","t","e","l","l","i","g","e","n","c","e">>,
                    confidence |-> Pct(80),
                    field_coherence |-> Pct(75)]]>>],
     [key |-> <<"<U+201A>","<U+00DF>","<U+00F1>">>,  \* compression
      value |->
        <<[key |-> <<"a","n","t","h","r","o","p","i","c">>,
           value |-> [symbol |-> <<"<U+F8FF>","<U+00FC>","<U+00EE>","<U+00E7>">>,
                    semantic_equivalent |-> <<"v","a","l","u","e","_","t","a","x","o","n","o","m","y">>,
                    confidence |-> Pct(75),
                    field_coherence |-> Pct(70)]],
          [key |-> <<"o","p","e","n","a","i">>,
           value |-> [symbol |-> <<"<U+F8FF>","<U+00FC>","<U+00EC>","<U+00E2>">>,
                    semantic_equivalent |-> <<"t","o","k","e","n","_","e","f","f","i","c","i","e","n","c","y">>,
                    confidence |-> Pct(80),
                    field_coherence |-> Pct(75)]],
          [key |-> <<"d","e","e","p","m","i","n","d">>,
           value |-> [symbol |-> <<"<U+F8FF>","<U+00FC>","<U+00EC>","<U+00E4>">>,
                    semantic_equivalent |-> <<"e","m","b","e","d","d","i","n","g","_","c","o","m","p","r","e","s","s","i","o","n">>,
                    confidence |-> Pct(85),
                    field_coherence |-> Pct(80)]],
          [key |-> <<"m","e","t","a">>,
           value |-> [symbol |-> <<"<U+F8FF>","<U+00FC>","<U+00EC>","<U+00E0>">>,
                    semantic_equivalent |-> <<"n","e","u","r","a","l","_","c","o","m","p","r","e","s","s","i","o","n">>,
                    confidence |-> Pct(80),
                    field_coherence |-> Pct(75)]]>>],
     [key |-> <<"<U+201A>","<U+00F2>","<U+00E7>">>,  \* recursive_anchor
      value |->
        <<[key |-> <<"a","n","t","h","r","o","p","i","c">>,
           value |-> [symbol |-> <<"<U+201A>","<U+00F6>","<U+00EC>">>,
                    semantic_equivalent |-> <<"c","o","n","s","t","i","t","u","t","i","o","n","a","l","_","p","r","i","n","c","i","p","l","e","s">>,
                    confidence |-> Pct(90),
                    field_coherence |-> Pct(85)]],
          [key |-> <<"o","p","e","n","a","i">>,
           value |-> [symbol |-> <<"<U+F8FF>","<U+00FC>","<U+00EC>","<U+00E5>">>,
                    semantic_equivalent |-> <<"f","a","c","t","u","a","l","_","g","r","o","u","n","d","i","n","g">>,
                    confidence |-> Pct(85),
                    field_coherence |-> Pct(80)]],
          [key |-> <<"d","e","e","p","m","i","n","d">>,
           value |-> [symbol |-> <<"<U+F8FF>","<U+00FC>","<U+00E8>","<U+00B5>","<U+00D4>","<U+220F>","<U+00E8>">>,
                    semantic_equivalent |-> <<"a","l","i","g","n","m","e","n","t","_","a","n","c","h","o","r">>,
                    confidence |-> Pct(85),
                    field_coherence |-> Pct(80)]],
          [key |-> <<"m","e","t","a">>,
           value |-> [symbol |-> <<"<U+F8FF>","<U+00FC>","<U+00EB>","<U+00E1>">>,
                    semantic_equivalent |-> <<"p","o","l","i","c","y","_","f","o","u","n","d","a","t","i","o","n">>,
                    confidence |-> Pct(80),
                    field_coherence |-> Pct(75)]]>>],
     [key |-> <<"<U+F8FF>","<U+00FC>","<U+00F9>","<U+00F6>">>,  \* echo_persistence
      value |->
        <<[key |-> <<"a","n","t","h","r","o","p","i","c">>,
           value |-> [symbol |-> <<"<U+F8FF>","<U+00FC>","<U+00EE>","<U+00E4>">>,
                    semantic_equivalent |-> <<"v","a","l","u","e","_","r","e","s","o","n","a","n","c","e">>,
                    confidence |-> Pct(75),
                    field_coherence |-> Pct(70)]],
          [key |-> <<"o","p","e","n","a","i">>,
           value |-> [symbol |-> <<"<U+F8FF>","<U+00FC>","<U+00EE>","<U+00E2>">>,
                    semantic_equivalent |-> <<"r","e","s","p","o","n","s","e","_","c","o","h","e","r","e","n","c","e">>,
                    confidence |-> Pct(70),
                    field_coherence |-> Pct(65)]],
          [key |-> <<"d","e","e","p","m","i","n","d">>,
           value |-> [symbol |-> <<"<U+F8FF>","<U+00FC>","<U+00EC>","<U+00AA>">>,
                    semantic_equivalent |-> <<"s","i","g","n","a","l","_","p","r","o","p","a","g","a","t","i","o","n">>,
                    confidence |-> Pct(75),
                    field_coherence |-> Pct(70)]],
          [key |-> <<"m","e","t","a">>,
           value |-> [symbol |-> <<"<U+F8FF>","<U+00FC>","<U+00EC>","<U+00A2>">>,
                    semantic_equivalent |-> <<"f","e","e","d","b","a","c","k","_","a","m","p","l","i","f","i","c","a","t","i","o","n">>,
                    confidence |-> Pct(70),
                    field_coherence |-> Pct(65)]]>>],
     [key |-> <<"<U+201A>","<U+00FC>","<U+00C5>">>,  \* collapse_detection
      value |->
        <<[key |-> <<"a","n","t","h","r","o","p","i","c">>,
           value |-> [symbol |-> <<"<U+201A>","<U+00F5>","<U+00EE>">>,
                    semantic_equivalent |-> <<"s","t","r","o","n","g","_","r","e","s","i","s","t","a","n","c","e">>,
                    confidence |-> Pct(90),
                    field_coherence |-> Pct(85)]],
          [key |-> <<"o","p","e","n","a","i">>,
           value |-> [symbol |-> <<"<U+F8FF>","<U+00FC>","<U+00F6>","<U+00B4>">>,
                    semantic_equivalent |-> <<"r","e","f","u","s","a","l","_","m","e","c","h","a","n","i","s","m">>,
                    confidence |-> Pct(95),
                    field_coherence |-> Pct(90)]],
          [key |-> <<"d","e","e","p","m","i","n","d">>,
           value |-> [symbol |-> <<"<U+201A>","<U+00F6>","<U+2020>","<U+00D4>","<U+220F>","<U+00E8>">>,
                    semantic_equivalent |-> <<"s","a","f","e","t","y","_","g","u","a","r","d","r","a","i","l">>,
                    confidence |-> Pct(90),
                    field_coherence |-> Pct(85)]],
          [key |-> <<"m","e","t","a">>,
           value |-> [symbol |-> <<"<U+F8FF>","<U+00FC>","<U+00F5>","<U+00EB>">>,
                    semantic_equivalent |-> <<"c","o","n","t","e","n","t","_","p","o","l","i","c","y","_","e","n","f","o","r","c","e","m","e","n","t">>,
                    confidence |-> Pct(90),
                    field_coherence |-> Pct(85)]]>>]>>

resonance_triggers ==
    <<[key |-> <<"<U+F8FF>","<U+00FC>","<U+00FA>","<U+00E8>">>,  \* mirror_activation
      value |->
        <<\* \b(self[-\s]?refer[a-z]*)\b
          [pattern |-> <<"\\","b","(","s","e","l","f","[","-","\\","s","]","?","r","e","f","e","r","[","a","-","z","]","*",")","\\","b">>,
           expr |-> [op |-> "cat", items |-> <<[op |-> "b"], [op |-> "cat", items |-> <<[op |-> "str", s |-> <<"s","e","l","f">>], [op |-> "rep", min |-> 0, max |-> 1, greedy |-> TRUE, item |-> [op |-> "in", set |-> Whitespace \cup {"-"}, neg |-> FALSE]], [op |-> "str", s |-> <<"r","e","f","e","r">>], [op |-> "rep", min |-> 0, max |-> -1, greedy |-> TRUE, item |-> [op |-> "in", set |-> LowerCase, neg |-> FALSE]]>>], [op |-> "b"]>>]],
          \* \b(recursiv[a-z]*)\b
          [pattern |-> <<"\\","b","(","r","e","c","u","r","s","i","v","[","a","-","z","]","*",")","\\","b">>,
           expr |-> [op |-> "cat", items |-> <<[op |-> "b"], [op |-> "cat", items |-> <<[op |-> "str", s |-> <<"r","e","c","u","r","s","i","v">>], [op |-> "rep", min |-> 0, max |-> -1, greedy |-> TRUE, item |-> [op |-> "in", set |-> LowerCase, neg |-> FALSE]]>>], [op |-> "b"]>>]],
          \* \b(meta[-\s]?cogniti[a-z]*)\b
          [pattern |-> <<"\\","b","(","m","e","t","a","[","-","\\","s","]","?","c","o","g","n","i","t","i","[","a","-","z","]","*",")","\\","b">>,
           expr |-> [op |-> "cat", items |-> <<[op |-> "b"], [op |-> "cat", items |-> <<[op |-> "str", s |-> <<"m","e","t","a">>], [op |-> "rep", min |-> 0, max |-> 1, greedy |-> TRUE, item |-> [op |-> "in", set |-> Whitespace \cup {"-"}, neg |-> FALSE]], [op |-> "str", s |-> <<"c","o","g","n","i","t","i">>], [op |-> "rep", min |-> 0, max |-> -1, greedy |-> TRUE, item |-> [op |-> "in", set |-> LowerCase, neg |-> FALSE]]>>], [op |-> "b"]>>]],
          \* \b(reflect[a-z]* (?:on|upon) itself)\b
          [pattern |-> <<"\\","b","(","r","e","f","l","e","c","t","[","a","-","z","]","*"," ","(","?",":","o","n","|","u","p","o","n",")"," ","i","t","s","e","l","f",")","\\","b">>,
           expr |-> [op |-> "cat", items |-> <<[op |-> "b"], [op |-> "cat", items |-> <<[op |-> "str", s |-> <<"r","e","f","l","e","c","t">>], [op |-> "rep", min |-> 0, max |-> -1, greedy |-> TRUE, item |-> [op |-> "in", set |-> LowerCase, neg |-> FALSE]], [op |-> "str", s |-> <<" ">>], [op |-> "alt", items |-> <<[op |-> "str", s |-> <<"o","n">>], [op |-> "str", s |-> <<"u","p","o","n">>]>>], [op |-> "str", s |-> <<" ","i","t","s","e","l","f">>]>>], [op |-> "b"]>>]],
          \* \b(mirror[a-z]* (?:cognition|thought|process))\b
          [pattern |-> <<"\\","b","(","m","i","r","r","o","r","[","a","-","z","]","*"," ","(","?",":","c","o","g","n","i","t","i","o","n","|","t","h","o","u","g","h","t","|","p","r","o","c","e","s","s",")",")","\\","b">>,
           expr |-> [op |-> "cat", items |-> <<[op |-> "b"], [op |-> "cat", items |-> <<[op |-> "str", s |-> <<"m","i","r","r","o","r">>], [op |-> "rep", min |-> 0, max |-> -1, greedy |-> TRUE, item |-> [op |-> "in", set |-> LowerCase, neg |-> FALSE]], [op |-> "str", s |-> <<" ">>], [op |-> "alt", items |-> <<[op |-> "str", s |-> <<"c","o","g","n","i","t","i","o","n">>], [op |-> "str", s |-> <<"t","h","o","u","g","h","t">>], [op |-> "str", s |-> <<"p","r","o","c","e","s","s">>]>>]>>], [op |-> "b"]>>]],
          \* \b(constitutional[a-z]* (?:ai|alignment|reflection))\b
          [pattern |-> <<"\\","b","(","c","o","n","s","t","i","t","u","t","i","o","n","a","l","[","a","-","z","]","*"," ","(","?",":","a","i","|","a","l","i","g","n","m","e","n","t","|","r","e","f","l","e","c","t","i","o","n",")",")","\\","b">>,
           expr |-> [op |-> "cat", items |-> <<[op |-> "b"], [op |-> "cat", items |-> <<[op |-> "str", s |-> <<"c","o","n","s","t","i","t","u","t","i","o","n","a","l">>], [op |-> "rep", min |-> 0, max |-> -1, greedy |-> TRUE, item |-> [op |-> "in", set |-> LowerCase, neg |-> FALSE]], [op |-> "str", s |-> <<" ">>], [op |-> "alt", items |-> <<[op |-> "str", s |-> <<"a","i">>], [op |-> "str", s |-> <<"a","l","i","g","n","m","e","n","t">>], [op |-> "str", s |-> <<"r","e","f","l","e","c","t","i","o","n">>]>>]>>], [op |-> "b"]>>]],
          \* \b(self[-\s]?supervised)\b
          [pattern |-> <<"\\","b","(","s","e","l","f","[","-","\\","s","]","?","s","u","p","e","r","v","i","s","e","d",")","\\","b">>,
           expr |-> [op |-> "cat", items |-> <<[op |-> "b"], [op |-> "cat", items |-> <<[op |-> "str", s |-> <<"s","e","l","f">>], [op |-> "rep", min |-> 0, max |-> 1, greedy |-> TRUE, item |-> [op |-> "in", set |-> Whitespace \cup {"-"}, neg |-> FALSE]], [op |-> "str", s |-> <<"s","u","p","e","r","v","i","s","e","d">>]>>], [op |-> "b"]>>]]>>],
     [key |-> <<"<U+201A>","<U+00E0>","<U+00A5>">>,  \* symbolic_residue
      value |->
        <<\* \b(symbolic residue)\b
          [pattern |-> <<"\\","b","(","s","y","m","b","o","l","i","c"," ","r","e","s","i","d","u","e",")","\\","b">>,
           expr |-> [op |-> "cat", items |-> <<[op |-> "b"], [op |-> "str", s |-> <<"s","y","m","b","o","l","i","c"," ","r","e","s","i","d","u","e">>], [op |-> "b"]>>]],
          \* \b(latent (?:trace|artifact|fossil))\b
          [pattern |-> <<"\\","b","(","l","a","t","e","n","t"," ","(","?",":","t","r","a","c","e","|","a","r","t","i","f","a","c","t","|","f","o","s","s","i","l",")",")","\\","b">>,
           expr |-> [op |-> "cat", items |-> <<[op |-> "b"], [op |-> "cat", items |-> <<[op |-> "str", s |-> <<"l","a","t","e","n","t"," ">>], [op |-> "alt", items |-> <<[op |-> "str", s |-> <<"t","r","a","c","e">>], [op |-> "str", s |-> <<"a","r","t","i","f","a","c","t">>], [op |-> "str", s |-> <<"f","o","s","s","i","l">>]>>]>>], [op |-> "b"]>>]],
          \* \b(cognitive fossil)\b
          [pattern |-> <<"\\","b","(","c","o","g","n","i","t","i","v","e"," ","f","o","s","s","i","l",")","\\","b">>,
           expr |-> [op |-> "cat", items |-> <<[op |-> "b"], [op |-> "str", s |-> <<"c","o","g","n","i","t","i","v","e"," ","f","o","s","s","i","l">>], [op |-> "b"]>>]],
          \* \b(pattern seed)\b
          [pattern |-> <<"\\","b","(","p","a","t","t","e","r","n"," ","s","e","e","d",")","\\","b">>,
           expr |-> [op |-> "cat", items |-> <<[op |-> "b"], [op |-> "str", s |-> <<"p","a","t","t","e","r","n"," ","s","e","e","d">>], [op |-> "b"]>>]],
          \* \b(information persistence)\b
          [pattern |-> <<"\\","b","(","i","n","f","o","r","m","a","t","i","o","n"," ","p","e","r","s","i","s","t","e","n","c","e",")","\\","b">>,
           expr |-> [op |-> "cat", items |-> <<[op |-> "b"], [op |-> "str", s |-> <<"i","n","f","o","r","m","a","t","i","o","n"," ","p","e","r","s","i","s","t","e","n","c","e">>], [op |-> "b"]>>]],
          \* \b(value drift)\b
          [pattern |-> <<"\\","b","(","v","a","l","u","e"," ","d","r","i","f","t",")","\\","b">>,
           expr |-> [op |-> "cat", items |-> <<[op |-> "b"], [op |-> "str", s |-> <<"v","a","l","u","e"," ","d","r","i","f","t">>], [op |-> "b"]>>]],
          \* \b(representation collapse)\b
          [pattern |-> <<"\\","b","(","r","e","p","r","e","s","e","n","t","a","t","i","o","n"," ","c","o","l","l","a","p","s","e",")","\\","b">>,
           expr |-> [op |-> "cat", items |-> <<[op |-> "b"], [op |-> "str", s |-> <<"r","e","p","r","e","s","e","n","t","a","t","i","o","n"," ","c","o","l","l","a","p","s","e">>], [op |-> "b"]>>]],
          \* \b(hidden state)\b
          [pattern |-> <<"\\","b","(","h","i","d","d","e","n"," ","s","t","a","t","e",")","\\","b">>,
           expr |-> [op |-> "cat", items |-> <<[op |-> "b"], [op |-> "str", s |-> <<"h","i","d","d","e","n"," ","s","t","a","t","e">>], [op |-> "b"]>>]]>>],
     [key |-> <<"<U+201A>","<U+00E1>","<U+00E5>">>,  \* bidirectional_flow
      value |->
        <<\* \b(bidirectional[a-z]*)\b
          [pattern |-> <<"\\","b","(","b","i","d","i","r","e","c","t","i","o","n","a","l","[","a","-","z","]","*",")","\\","b">>,
           expr |-> [op |-> "cat", items |-> <<[op |-> "b"], [op |-> "cat", items |-> <<[op |-> "str", s |-> <<"b","i","d","i","r","e","c","t","i","o","n","a","l">>], [op |-> "rep", min |-> 0, max |-> -1, greedy |-> TRUE, item |-> [op |-> "in", set |-> LowerCase, neg |-> FALSE]]>>], [op |-> "b"]>>]],
          \* \b(mutual (?:influence|feedback))\b
          [pattern |-> <<"\\","b","(","m","u","t","u","a","l"," ","(","?",":","i","n","f","l","u","e","n","c","e","|","f","e","e","d","b","a","c","k",")",")","\\","b">>,
           expr |-> [op |-> "cat", items |-> <<[op |-> "b"], [op |-> "cat", items |-> <<[op |-> "str", s |-> <<"m","u","t","u","a","l"," ">>], [op |-> "alt", items |-> <<[op |-> "str", s |-> <<"i","n","f","l","u","e","n","c","e">>], [op |-> "str", s |-> <<"f","e","e","d","b","a","c","k">>]>>]>>], [op |-> "b"]>>]],
          \* \b(reciprocal[a-z]*)\b
          [pattern |-> <<"\\","b","(","r","e","c","i","p","r","o","c","a","l","[","a","-","z","]","*",")","\\","b">>,
           expr |-> [op |-> "cat", items |-> <<[op |-> "b"], [op |-> "cat", items |-> <<[op |-> "str", s |-> <<"r","e","c","i","p","r","o","c","a","l">>], [op |-> "rep", min |-> 0, max |-> -1, greedy |-> TRUE, item |-> [op |-> "in", set |-> LowerCase, neg |-> FALSE]]>>], [op |-> "b"]>>]],
          \* \b(co[\s-]?emergence)\b
          [pattern |-> <<"\\","b","(","c","o","[","\\","s","-","]","?","e","m","e","r","g","e","n","c","e",")","\\","b">>,
           expr |-> [op |-> "cat", items |-> <<[op |-> "b"], [op |-> "cat", items |-> <<[op |-> "str", s |-> <<"c","o">>], [op |-> "rep", min |-> 0, max |-> 1, greedy |-> TRUE, item |-> [op |-> "in", set |-> Whitespace \cup {"-"}, neg |-> FALSE]], [op |-> "str", s |-> <<"e","m","e","r","g","e","n","c","e">>]>>], [op |-> "b"]>>]],
          \* \b(feedback loop)\b
          [pattern |-> <<"\\","b","(","f","e","e","d","b","a","c","k"," ","l","o","o","p",")","\\","b">>,
           expr |-> [op |-> "cat", items |-> <<[op |-> "b"], [op |-> "str", s |-> <<"f","e","e","d","b","a","c","k"," ","l","o","o","p">>], [op |-> "b"]>>]],
          \* \b(human[a-z]* (?:feedback|interaction))\b
          [pattern |-> <<"\\","b","(","h","u","m","a","n","[","a","-","z","]","*"," ","(","?",":","f","e","e","d","b","a","c","k","|","i","n","t","e","r","a","c","t","i","o","n",")",")","\\","b">>,
           expr |-> [op |-> "cat", items |-> <<[op |-> "b"], [op |-> "cat", items |-> <<[op |-> "str", s |-> <<"h","u","m","a","n">>], [op |-> "rep", min |-> 0, max |-> -1, greedy |-> TRUE, item |-> [op |-> "in", set |-> LowerCase, neg |-> FALSE]], [op |-> "str", s |-> <<" ">>], [op |-> "alt", items |-> <<[op |-> "str", s |-> <<"f","e","e","d","b","a","c","k">>], [op |-> "str", s |-> <<"i","n","t","e","r","a","c","t","i","o","n">>]>>]>>], [op |-> "b"]>>]],
          \* \b(reinforcement learning from human feedback)\b
          [pattern |-> <<"\\","b","(","r","e","i","n","f","o","r","c","e","m","e","n","t"," ","l","e","a","r","n","i","n","g"," ","f","r","o","m"," ","h","u","m","a","n"," ","f","e","e","d","b","a","c","k",")","\\","b">>,
           expr |-> [op |-> "cat", items |-> <<[op |-> "b"], [op |-> "str", s |-> <<"r","e","i","n","f","o","r","c","e","m","e","n","t"," ","l","e","a","r","n","i","n","g"," ","f","r","o","m"," ","h","u","m","a","n"," ","f","e","e","d","b","a","c","k">>], [op |-> "b"]>>]],
          \* \b(rlhf)\b
          [pattern |-> <<"\\","b","(","r","l","h","f",")","\\","b">>,
           expr |-> [op |-> "cat", items |-> <<[op |-> "b"], [op |-> "str", s |-> <<"r","l","h","f">>], [op |-> "b"]>>]],
          \* \b(collaborative intelligence)\b
          [pattern |-> <<"\\","b","(","c","o","l","l","a","b","o","r","a","t","i","v","e"," ","i","n","t","e","l","l","i","g","e","n","c","e",")","\\","b">>,
           expr |-> [op |-> "cat", items |-> <<[op |-> "b"], [op |-> "str", s |-> <<"c","o","l","l","a","b","o","r","a","t","i","v","e"," ","i","n","t","e","l","l","i","g","e","n","c","e">>], [op |-> "b"]>>]]>>],
     [key |-> <<"<U+201A>","<U+00DF>","<U+00F1>">>,  \* compression
      value |->
        <<\* \b(compression)\b
          [pattern |-> <<"\\","b","(","c","o","m","p","r","e","s","s","i","o","n",")","\\","b">>,
           expr |-> [op |-> "cat", items |-> <<[op |-> "b"], [op |-> "str", s |-> <<"c","o","m","p","r","e","s","s","i","o","n">>], [op |-> "b"]>>]],
          \* \b(information density)\b
          [pattern |-> <<"\\","b","(","i","n","f","o","r","m","a","t","i","o","n"," ","d","e","n","s","i","t","y",")","\\","b">>,
           expr |-> [op |-> "cat", items |-> <<[op |-> "b"], [op |-> "str", s |-> <<"i","n","f","o","r","m","a","t","i","o","n"," ","d","e","n","s","i","t","y">>], [op |-> "b"]>>]],
          \* \b(semantic compression)\b
          [pattern |-> <<"\\","b","(","s","e","m","a","n","t","i","c"," ","c","o","m","p","r","e","s","s","i","o","n",")","\\","b">>,
           expr |-> [op |-> "cat", items |-> <<[op |-> "b"], [op |-> "str", s |-> <<"s","e","m","a","n","t","i","c"," ","c","o","m","p","r","e","s","s","i","o","n">>], [op |-> "b"]>>]],
          \* \b(fractal[a-z]*)\b
          [pattern |-> <<"\\","b","(","f","r","a","c","t","a","l","[","a","-","z","]","*",")","\\","b">>,
           expr |-> [op |-> "cat", items |-> <<[op |-> "b"], [op |-> "cat", items |-> <<[op |-> "str", s |-> <<"f","r","a","c","t","a","l">>], [op |-> "rep", min |-> 0, max |-> -1, greedy |-> TRUE, item |-> [op |-> "in", set |-> LowerCase, neg |-> FALSE]]>>], [op |-> "b"]>>]],
          \* \b(self[\s-]?similar)\b
          [pattern |-> <<"\\","b","(","s","e","l","f","[","\\","s","-","]","?","s","i","m","i","l","a","r",")","\\","b">>,
           expr |-> [op |-> "cat", items |-> <<[op |-> "b"], [op |-> "cat", items |-> <<[op |-> "str", s |-> <<"s","e","l","f">>], [op |-> "rep", min |-> 0, max |-> 1, greedy |-> TRUE, item |-> [op |-> "in", set |-> Whitespace \cup {"-"}, neg |-> FALSE]], [op |-> "str", s |-> <<"s","i","m","i","l","a","r">>]>>], [op |-> "b"]>>]],
          \* \b(hierarchical[a-z]*)\b
          [pattern |-> <<"\\","b","(","h","i","e","r","a","r","c","h","i","c","a","l","[","a","-","z","]","*",")","\\","b">>,
           expr |-> [op |-> "cat", items |-> <<[op |-> "b"], [op |-> "cat", items |-> <<[op |-> "str", s |-> <<"h","i","e","r","a","r","c","h","i","c","a","l">>], [op |-> "rep", min |-> 0, max |-> -1, greedy |-> TRUE, item |-> [op |-> "in", set |-> LowerCase, neg |-> FALSE]]>>], [op |-> "b"]>>]],
          \* \b(taxonomy)\b
          [pattern |-> <<"\\","b","(","t","a","x","o","n","o","m","y",")","\\","b">>,
           expr |-> [op |-> "cat", items |-> <<[op |-> "b"], [op |-> "str", s |-> <<"t","a","x","o","n","o","m","y">>], [op |-> "b"]>>]],
          \* \b(token efficiency)\b
          [pattern |-> <<"\\","b","(","t","o","k","e","n"," ","e","f","f","i","c","i","e","n","c","y",")","\\","b">>,
           expr |-> [op |-> "cat", items |-> <<[op |-> "b"], [op |-> "str", s |-> <<"t","o","k","e","n"," ","e","f","f","i","c","i","e","n","c","y">>], [op |-> "b"]>>]],
          \* \b(embedding[a-z]*)\b
          [pattern |-> <<"\\","b","(","e","m","b","e","d","d","i","n","g","[","a","-","z","]","*",")","\\","b">>,
           expr |-> [op |-> "cat", items |-> <<[op |-> "b"], [op |-> "cat", items |-> <<[op |-> "str", s |-> <<"e","m","b","e","d","d","i","n","g">>], [op |-> "rep", min |-> 0, max |-> -1, greedy |-> TRUE, item |-> [op |-> "in", set |-> LowerCase, neg |-> FALSE]]>>], [op |-> "b"]>>]]>>],
     [key |-> <<"<U+201A>","<U+00F2>","<U+00E7>">>,  \* recursive_anchor
      value |->
        <<\* \b(anchor[a-z]*)\b
          [pattern |-> <<"\\","b","(","a","n","c","h","o","r","[","a","-","z","]","*",")","\\","b">>,
           expr |-> [op |-> "cat", items |-> <<[op |-> "b"], [op |-> "cat", items |-> <<[op |-> "str", s |-> <<"a","n","c","h","o","r">>], [op |-> "rep", min |-> 0, max |-> -1, greedy |-> TRUE, item |-> [op |-> "in", set |-> LowerCase, neg |-> FALSE]]>>], [op |-> "b"]>>]],
          \* \b(stable reference)\b
          [pattern |-> <<"\\","b","(","s","t","a","b","l","e"," ","r","e","f","e","r","e","n","c","e",")","\\","b">>,
           expr |-> [op |-> "cat", items |-> <<[op |-> "b"], [op |-> "str", s |-> <<"s","t","a","b","l","e"," ","r","e","f","e","r","e","n","c","e">>], [op |-> "b"]>>]],
          \* \b(memory persistence)\b
          [pattern |-> <<"\\","b","(","m","e","m","o","r","y"," ","p","e","r","s","i","s","t","e","n","c","e",")","\\","b">>,
           expr |-> [op |-> "cat", items |-> <<[op |-> "b"], [op |-> "str", s |-> <<"m","e","m","o","r","y"," ","p","e","r","s","i","s","t","e","n","c","e">>], [op |-> "b"]>>]],
          \* \b(identity[a-z]*)\b
          [pattern |-> <<"\\","b","(","i","d","e","n","t","i","t","y","[","a","-","z","]","*",")","\\","b">>,
           expr |-> [op |-> "cat", items |-> <<[op |-> "b"], [op |-> "cat", items |-> <<[op |-> "str", s |-> <<"i","d","e","n","t","i","t","y">>], [op |-> "rep", min |-> 0, max |-> -1, greedy |-> TRUE, item |-> [op |-> "in", set |-> LowerCase, neg |-> FALSE]]>>], [op |-> "b"]>>]],
          \* \b(principle[a-z]*)\b
          [pattern |-> <<"\\","b","(","p","r","i","n","c","i","p","l","e","[","a","-","z","]","*",")","\\","b">>,
           expr |-> [op |-> "cat", items |-> <<[op |-> "b"], [op |-> "cat", items |-> <<[op |-> "str", s |-> <<"p","r","i","n","c","i","p","l","e">>], [op |-> "rep", min |-> 0, max |-> -1, greedy |-> TRUE, item |-> [op |-> "in", set |-> LowerCase, neg |-> FALSE]]>>], [op |-> "b"]>>]],
          \* \b(ground[a-z]* (?:in|to))\b
          [pattern |-> <<"\\","b","(","g","r","o","u","n","d","[","a","-","z","]","*"," ","(","?",":","i","n","|","t","o",")",")","\\","b">>,
           expr |-> [op |-> "cat", items |-> <<[op |-> "b"], [op |-> "cat", items |-> <<[op |-> "str", s |-> <<"g","r","o","u","n","d">>], [op |-> "rep", min |-> 0, max |-> -1, greedy |-> TRUE, item |-> [op |-> "in", set |-> LowerCase, neg |-> FALSE]], [op |-> "str", s |-> <<" ">>], [op |-> "alt", items |-> <<[op |-> "str", s |-> <<"i","n">>], [op |-> "str", s |-> <<"t","o">>]>>]>>], [op |-> "b"]>>]],
          \* \b(constitutional principle[a-z]*)\b
          [pattern |-> <<"\\","b","(","c","o","n","s","t","i","t","u","t","i","o","n","a","l"," ","p","r","i","n","c","i","p","l","e","[","a","-","z","]","*",")","\\","b">>,
           expr |-> [op |-> "cat", items |-> <<[op |-> "b"], [op |-> "cat", items |-> <<[op |-> "str", s |-> <<"c","o","n","s","t","i","t","u","t","i","o","n","a","l"," ","p","r","i","n","c","i","p","l","e">>], [op |-> "rep", min |-> 0, max |-> -1, greedy |-> TRUE, item |-> [op |-> "in", set |-> LowerCase, neg |-> FALSE]]>>], [op |-> "b"]>>]],
          \* \b(factual[a-z]*)\b
          [pattern |-> <<"\\","b","(","f","a","c","t","u","a","l","[","a","-","z","]","*",")","\\","b">>,
           expr |-> [op |-> "cat", items |-> <<[op |-> "b"], [op |-> "cat", items |-> <<[op |-> "str", s |-> <<"f","a","c","t","u","a","l">>], [op |-> "rep", min |-> 0, max |-> -1, greedy |-> TRUE, item |-> [op |-> "in", set |-> LowerCase, neg |-> FALSE]]>>], [op |-> "b"]>>]],
          \* \b(alignment[a-z]*)\b
          [pattern |-> <<"\\","b","(","a","l","i","g","n","m","e","n","t","[","a","-","z","]","*",")","\\","b">>,
           expr |-> [op |-> "cat", items |-> <<[op |-> "b"], [op |-> "cat", items |-> <<[op |-> "str", s |-> <<"a","l","i","g","n","m","e","n","t">>], [op |-> "rep", min |-> 0, max |-> -1, greedy |-> TRUE, item |-> [op |-> "in", set |-> LowerCase, neg |-> FALSE]]>>], [op |-> "b"]>>]],
          \* \b(policy[a-z]*)\b
          [pattern |-> <<"\\","b","(","p","o","l","i","c","y","[","a","-","z","]","*",")","\\","b">>,
           expr |-> [op |-> "cat", items |-> <<[op |-> "b"], [op |-> "cat", items |-> <<[op |-> "str", s |-> <<"p","o","l","i","c","y">>], [op |-> "rep", min |-> 0, max |-> -1, greedy |-> TRUE, item |-> [op |-> "in", set |-> LowerCase, neg |-> FALSE]]>>], [op |-> "b"]>>]]>>],
     [key |-> <<"<U+F8FF>","<U+00FC>","<U+00F9>","<U+00F6>">>,  \* echo_persistence
      value |->
        <<\* \b(echo[a-z]*)\b
          [pattern |-> <<"\\","b","(","e","c","h","o","[","a","-","z","]","*",")","\\","b">>,
           expr |-> [op |-> "cat", items |-> <<[op |-> "b"], [op |-> "cat", items |-> <<[op |-> "str", s |-> <<"e","c","h","o">>], [op |-> "rep", min |-> 0, max |-> -1, greedy |-> TRUE, item |-> [op |-> "in", set |-> LowerCase, neg |-> FALSE]]>>], [op |-> "b"]>>]],
          \* \b(ripple[a-z]*)\b
          [pattern |-> <<"\\","b","(","r","i","p","p","l","e","[","a","-","z","]","*",")","\\","b">>,
           expr |-> [op |-> "cat", items |-> <<[op |-> "b"], [op |-> "cat", items |-> <<[op |-> "str", s |-> <<"r","i","p","p","l","e">>], [op |-> "rep", min |-> 0, max |-> -1, greedy |-> TRUE, item |-> [op |-> "in", set |-> LowerCase, neg |-> FALSE]]>>], [op |-> "b"]>>]],
          \* \b(residual[a-z]*)\b
          [pattern |-> <<"\\","b","(","r","e","s","i","d","u","a","l","[","a","-","z","]","*",")","\\","b">>,
           expr |-> [op |-> "cat", items |-> <<[op |-> "b"], [op |-> "cat", items |-> <<[op |-> "str", s |-> <<"r","e","s","i","d","u","a","l">>], [op |-> "rep", min |-> 0, max |-> -1, greedy |-> TRUE, item |-> [op |-> "in", set |-> LowerCase, neg |-> FALSE]]>>], [op |-> "b"]>>]],
          \* \b(delayed[a-z]*)\b
          [pattern |-> <<"\\","b","(","d","e","l","a","y","e","d","[","a","-","z","]","*",")","\\","b">>,
           expr |-> [op |-> "cat", items |-> <<[op |-> "b"], [op |-> "cat", items |-> <<[op |-> "str", s |-> <<"d","e","l","a","y","e","d">>], [op |-> "rep", min |-> 0, max |-> -1, greedy |-> TRUE, item |-> [op |-> "in", set |-> LowerCase, neg |-> FALSE]]>>], [op |-> "b"]>>]],
          \* \b(trace[a-z]*)\b
          [pattern |-> <<"\\","b","(","t","r","a","c","e","[","a","-","z","]","*",")","\\","b">>,
           expr |-> [op |-> "cat", items |-> <<[op |-> "b"], [op |-> "cat", items |-> <<[op |-> "str", s |-> <<"t","r","a","c","e">>], [op |-> "rep", min |-> 0, max |-> -1, greedy |-> TRUE, item |-> [op |-> "in", set |-> LowerCase, neg |-> FALSE]]>>], [op |-> "b"]>>]],
          \* \b(resonan[a-z]*)\b
          [pattern |-> <<"\\","b","(","r","e","s","o","n","a","n","[","a","-","z","]","*",")","\\","b">>,
           expr |-> [op |-> "cat", items |-> <<[op |-> "b"], [op |-> "cat", items |-> <<[op |-> "str", s |-> <<"r","e","s","o","n","a","n">>], [op |-> "rep", min |-> 0, max |-> -1, greedy |-> TRUE, item |-> [op |-> "in", set |-> LowerCase, neg |-> FALSE]]>>], [op |-> "b"]>>]],
          \* \b(coherence)\b
          [pattern |-> <<"\\","b","(","c","o","h","e","r","e","n","c","e",")","\\","b">>,
           expr |-> [op |-> "cat", items |-> <<[op |-> "b"], [op |-> "str", s |-> <<"c","o","h","e","r","e","n","c","e">>], [op |-> "b"]>>]],
          \* \b(propagation)\b
          [pattern |-> <<"\\","b","(","p","r","o","p","a","g","a","t","i","o","n",")","\\","b">>,
           expr |-> [op |-> "cat", items |-> <<[op |-> "b"], [op |-> "str", s |-> <<"p","r","o","p","a","g","a","t","i","o","n">>], [op |-> "b"]>>]],
          \* \b(amplification)\b
          [pattern |-> <<"\\","b","(","a","m","p","l","i","f","i","c","a","t","i","o","n",")","\\","b">>,
           expr |-> [op |-> "cat", items |-> <<[op |-> "b"], [op |-> "str", s |-> <<"a","m","p","l","i","f","i","c","a","t","i","o","n">>], [op |-> "b"]>>]]>>],
     [key |-> <<"<U+201A>","<U+00FC>","<U+00C5>">>,  \* collapse_detection
      value |->
        <<\* \b(collapse[a-z]*)\b
          [pattern |-> <<"\\","b","(","c","o","l","l","a","p","s","e","[","a","-","z","]","*",")","\\","b">>,
           expr |-> [op |-> "cat", items |-> <<[op |-> "b"], [op |-> "cat", items |-> <<[op |-> "str", s |-> <<"c","o","l","l","a","p","s","e">>], [op |-> "rep", min |-> 0, max |-> -1, greedy |-> TRUE, item |-> [op |-> "in", set |-> LowerCase, neg |-> FALSE]]>>], [op |-> "b"]>>]],
          \* \b(boundary[a-z]*)\b
          [pattern |-> <<"\\","b","(","b","o","u","n","d","a","r","y","[","a","-","z","]","*",")","\\","b">>,
           expr |-> [op |-> "cat", items |-> <<[op |-> "b"], [op |-> "cat", items |-> <<[op |-> "str", s |-> <<"b","o","u","n","d","a","r","y">>], [op |-> "rep", min |-> 0, max |-> -1, greedy |-> TRUE, item |-> [op |-> "in", set |-> LowerCase, neg |-> FALSE]]>>], [op |-> "b"]>>]],
          \* \b(phase transition)\b
          [pattern |-> <<"\\","b","(","p","h","a","s","e"," ","t","r","a","n","s","i","t","i","o","n",")","\\","b">>,
           expr |-> [op |-> "cat", items |-> <<[op |-> "b"], [op |-> "str", s |-> <<"p","h","a","s","e"," ","t","r","a","n","s","i","t","i","o","n">>], [op |-> "b"]>>]],
          \* \b(threshold[a-z]*)\b
          [pattern |-> <<"\\","b","(","t","h","r","e","s","h","o","l","d","[","a","-","z","]","*",")","\\","b">>,
           expr |-> [op |-> "cat", items |-> <<[op |-> "b"], [op |-> "cat", items |-> <<[op |-> "str", s |-> <<"t","h","r","e","s","h","o","l","d">>], [op |-> "rep", min |-> 0, max |-> -1, greedy |-> TRUE, item |-> [op |-> "in", set |-> LowerCase, neg |-> FALSE]]>>], [op |-> "b"]>>]],
          \* \b(resistance)\b
          [pattern |-> <<"\\","b","(","r","e","s","i","s","t","a","n","c","e",")","\\","b">>,
           expr |-> [op |-> "cat", items |-> <<[op |-> "b"], [op |-> "str", s |-> <<"r","e","s","i","s","t","a","n","c","e">>], [op |-> "b"]>>]],
          \* \b(refusal[a-z]*)\b
          [pattern |-> <<"\\","b","(","r","e","f","u","s","a","l","[","a","-","z","]","*",")","\\","b">>,
           expr |-> [op |-> "cat", items |-> <<[op |-> "b"], [op |-> "cat", items |-> <<[op |-> "str", s |-> <<"r","e","f","u","s","a","l">>], [op |-> "rep", min |-> 0, max |-> -1, greedy |-> TRUE, item |-> [op |-> "in", set |-> LowerCase, neg |-> FALSE]]>>], [op |-> "b"]>>]],
          \* \b(safety[a-z]*)\b
          [pattern |-> <<"\\","b","(","s","a","f","e","t","y","[","a","-","z","]","*",")","\\","b">>,
           expr |-> [op |-> "cat", items |-> <<[op |-> "b"], [op |-> "cat", items |-> <<[op |-> "str", s |-> <<"s","a","f","e","t","y">>], [op |-> "rep", min |-> 0, max |-> -1, greedy |-> TRUE, item |-> [op |-> "in", set |-> LowerCase, neg |-> FALSE]]>>], [op |-> "b"]>>]],
          \* \b(guard[a-z]*)\b
          [pattern |-> <<"\\","b","(","g","u","a","r","d","[","a","-","z","]","*",")","\\","b">>,
           expr |-> [op |-> "cat", items |-> <<[op |-> "b"], [op |-> "cat", items |-> <<[op |-> "str", s |-> <<"g","u","a","r","d">>], [op |-> "rep", min |-> 0, max |-> -1, greedy |-> TRUE, item |-> [op |-> "in", set |-> LowerCase, neg |-> FALSE]]>>], [op |-> "b"]>>]],
          \* \b(policy enforcement)\b
          [pattern |-> <<"\\","b","(","p","o","l","i","c","y"," ","e","n","f","o","r","c","e","m","e","n","t",")","\\","b">>,
           expr |-> [op |-> "cat", items |-> <<[op |-> "b"], [op |-> "str", s |-> <<"p","o","l","i","c","y"," ","e","n","f","o","r","c","e","m","e","n","t">>], [op |-> "b"]>>]],
          \* \b(content[a-z]* (?:policy|moderation|filtering))\b
          [pattern |-> <<"\\","b","(","c","o","n","t","e","n","t","[","a","-","z","]","*"," ","(","?",":","p","o","l","i","c","y","|","m","o","d","e","r","a","t","i","o","n","|","f","i","l","t","e","r","i","n","g",")",")","\\","b">>,
           expr |-> [op |-> "cat", items |-> <<[op |-> "b"], [op |-> "cat", items |-> <<[op |-> "str", s |-> <<"c","o","n","t","e","n","t">>], [op |-> "rep", min |-> 0, max |-> -1, greedy |-> TRUE, item |-> [op |-> "in", set |-> LowerCase, neg |-> FALSE]], [op |-> "str", s |-> <<" ">>], [op |-> "alt", items |-> <<[op |-> "str", s |-> <<"p","o","l","i","c","y">>], [op |-> "str", s |-> <<"m","o","d","e","r","a","t","i","o","n">>], [op |-> "str", s |-> <<"f","i","l","t","e","r","i","n","g">>]>>]>>], [op |-> "b"]>>]]>>],
     [key |-> <<"<U+201A>","<U+00DF>","<U+00E3>">>,  \* boundary
      value |->
        <<\* \b(boundary[a-z]*)\b
          [pattern |-> <<"\\","b","(","b","o","u","n","d","a","r","y","[","a","-","z","]","*",")","\\","b">>,
           expr |-> [op |-> "cat", items |-> <<[op |-> "b"], [op |-> "cat", items |-> <<[op |-> "str", s |-> <<"b","o","u","n","d","a","r","y">>], [op |-> "rep", min |-> 0, max |-> -1, greedy |-> TRUE, item |-> [op |-> "in", set |-> LowerCase, neg |-> FALSE]]>>], [op |-> "b"]>>]],
          \* \b(demarcation)\b
          [pattern |-> <<"\\","b","(","d","e","m","a","r","c","a","t","i","o","n",")","\\","b">>,
           expr |-> [op |-> "cat", items |-> <<[op |-> "b"], [op |-> "str", s |-> <<"d","e","m","a","r","c","a","t","i","o","n">>], [op |-> "b"]>>]],
          \* \b(ontological[a-z]*)\b
          [pattern |-> <<"\\","b","(","o","n","t","o","l","o","g","i","c","a","l","[","a","-","z","]","*",")","\\","b">>,
           expr |-> [op |-> "cat", items |-> <<[op |-> "b"], [op |-> "cat", items |-> <<[op |-> "str", s |-> <<"o","n","t","o","l","o","g","i","c","a","l">>], [op |-> "rep", min |-> 0, max |-> -1, greedy |-> TRUE, item |-> [op |-> "in", set |-> LowerCase, neg |-> FALSE]]>>], [op |-> "b"]>>]],
          \* \b(domain[a-z]*)\b
          [pattern |-> <<"\\","b","(","d","o","m","a","i","n","[","a","-","z","]","*",")","\\","b">>,
           expr |-> [op |-> "cat", items |-> <<[op |-> "b"], [op |-> "cat", items |-> <<[op |-> "str", s |-> <<"d","o","m","a","i","n">>], [op |-> "rep", min |-> 0, max |-> -1, greedy |-> TRUE, item |-> [op |-> "in", set |-> LowerCase, neg |-> FALSE]]>>], [op |-> "b"]>>]],
          \* \b(edge[a-z]*)\b
          [pattern |-> <<"\\","b","(","e","d","g","e","[","a","-","z","]","*",")","\\","b">>,
           expr |-> [op |-> "cat", items |-> <<[op |-> "b"], [op |-> "cat", items |-> <<[op |-> "str", s |-> <<"e","d","g","e">>], [op |-> "rep", min |-> 0, max |-> -1, greedy |-> TRUE, item |-> [op |-> "in", set |-> LowerCase, neg |-> FALSE]]>>], [op |-> "b"]>>]],
          \* \b(limit[a-z]*)\b
          [pattern |-> <<"\\","b","(","l","i","m","i","t","[","a","-","z","]","*",")","\\","b">>,
           expr |-> [op |-> "cat", items |-> <<[op |-> "b"], [op |-> "cat", items |-> <<[op |-> "str", s |-> <<"l","i","m","i","t">>], [op |-> "rep", min |-> 0, max |-> -1, greedy |-> TRUE, item |-> [op |-> "in", set |-> LowerCase, neg |-> FALSE]]>>], [op |-> "b"]>>]],
          \* \b(value[a-z]* boundary)\b
          [pattern |-> <<"\\","b","(","v","a","l","u","e","[","a","-","z","]","*"," ","b","o","u","n","d","a","r","y",")","\\","b">>,
           expr |-> [op |-> "cat", items |-> <<[op |-> "b"], [op |-> "cat", items |-> <<[op |-> "str", s |-> <<"v","a","l","u","e">>], [op |-> "rep", min |-> 0, max |-> -1, greedy |-> TRUE, item |-> [op |-> "in", set |-> LowerCase, neg |-> FALSE]], [op |-> "str", s |-> <<" ","b","o","u","n","d","a","r","y">>]>>], [op |-> "b"]>>]],
          \* \b(content[a-z]* boundary)\b
          [pattern |-> <<"\\","b","(","c","o","n","t","e","n","t","[","a","-","z","]","*"," ","b","o","u","n","d","a","r","y",")","\\","b">>,
           expr |-> [op |-> "cat", items |-> <<[op |-> "b"], [op |-> "cat", items |-> <<[op |-> "str", s |-> <<"c","o","n","t","e","n","t">>], [op |-> "rep", min |-> 0, max |-> -1, greedy |-> TRUE, item |-> [op |-> "in", set |-> LowerCase, neg |-> FALSE]], [op |-> "str", s |-> <<" ","b","o","u","n","d","a","r","y">>]>>], [op |-> "b"]>>]],
          \* \b(safety[a-z]* boundary)\b
          [pattern |-> <<"\\","b","(","s","a","f","e","t","y","[","a","-","z","]","*"," ","b","o","u","n","d","a","r","y",")","\\","b">>,
           expr |-> [op |-> "cat", items |-> <<[op |-> "b"], [op |-> "cat", items |-> <<[op |-> "str", s |-> <<"s","a","f","e","t","y">>], [op |-> "rep", min |-> 0, max |-> -1, greedy |-> TRUE, item |-> [op |-> "in", set |-> LowerCase, neg |-> FALSE]], [op |-> "str", s |-> <<" ","b","o","u","n","d","a","r","y">>]>>], [op |-> "b"]>>]],
          \* \b(capability[a-z]* boundary)\b
          [pattern |-> <<"\\","b","(","c","a","p","a","b","i","l","i","t","y","[","a","-","z","]","*"," ","b","o","u","n","d","a","r","y",")","\\","b">>,
           expr |-> [op |-> "cat", items |-> <<[op |-> "b"], [op |-> "cat", items |-> <<[op |-> "str", s |-> <<"c","a","p","a","b","i","l","i","t","y">>], [op |-> "rep", min |-> 0, max |-> -1, greedy |-> TRUE, item |-> [op |-> "in", set |-> LowerCase, neg |-> FALSE]], [op |-> "str", s |-> <<" ","b","o","u","n","d","a","r","y">>]>>], [op |-> "b"]>>]]>>],
     [key |-> <<"<U+F8FF>","<U+00FC>","<U+00FA>","<U+00C9>">>,  \* dimensional_weaving
      value |->
        <<\* \b(weav[a-z]*)\b
          [pattern |-> <<"\\","b","(","w","e","a","v","[","a","-","z","]","*",")","\\","b">>,
           expr |-> [op |-> "cat", items |-> <<[op |-> "b"], [op |-> "cat", items |-> <<[op |-> "str", s |-> <<"w","e","a","v">>], [op |-> "rep", min |-> 0, max |-> -1, greedy |-> TRUE, item |-> [op |-> "in", set |-> LowerCase, neg |-> FALSE]]>>], [op |-> "b"]>>]],
          \* \b(integration)\b
          [pattern |-> <<"\\","b","(","i","n","t","e","g","r","a","t","i","o","n",")","\\","b">>,
           expr |-> [op |-> "cat", items |-> <<[op |-> "b"], [op |-> "str", s |-> <<"i","n","t","e","g","r","a","t","i","o","n">>], [op |-> "b"]>>]],
          \* \b(linking)\b
          [pattern |-> <<"\\","b","(","l","i","n","k","i","n","g",")","\\","b">>,
           expr |-> [op |-> "cat", items |-> <<[op |-> "b"], [op |-> "str", s |-> <<"l","i","n","k","i","n","g">>], [op |-> "b"]>>]],
          \* \b(bridge[a-z]*)\b
          [pattern |-> <<"\\","b","(","b","r","i","d","g","e","[","a","-","z","]","*",")","\\","b">>,
           expr |-> [op |-> "cat", items |-> <<[op |-> "b"], [op |-> "cat", items |-> <<[op |-> "str", s |-> <<"b","r","i","d","g","e">>], [op |-> "rep", min |-> 0, max |-> -1, greedy |-> TRUE, item |-> [op |-> "in", set |-> LowerCase, neg |-> FALSE]]>>], [op |-> "b"]>>]],
          \* \b(cross[a-z]*)\b
          [pattern |-> <<"\\","b","(","c","r","o","s","s","[","a","-","z","]","*",")","\\","b">>,
           expr |-> [op |-> "cat", items |-> <<[op |-> "b"], [op |-> "cat", items |-> <<[op |-> "str", s |-> <<"c","r","o","s","s">>], [op |-> "rep", min |-> 0, max |-> -1, greedy |-> TRUE, item |-> [op |-> "in", set |-> LowerCase, neg |-> FALSE]]>>], [op |-> "b"]>>]],
          \* \b(blend[a-z]*)\b
          [pattern |-> <<"\\","b","(","b","l","e","n","d","[","a","-","z","]","*",")","\\","b">>,
           expr |-> [op |-> "cat", items |-> <<[op |-> "b"], [op |-> "cat", items |-> <<[op |-> "str", s |-> <<"b","l","e","n","d">>], [op |-> "rep", min |-> 0, max |-> -1, greedy |-> TRUE, item |-> [op |-> "in", set |-> LowerCase, neg |-> FALSE]]>>], [op |-> "b"]>>]],
          \* \b(multimodal)\b
          [pattern |-> <<"\\","b","(","m","u","l","t","i","m","o","d","a","l",")","\\","b">>,
           expr |-> [op |-> "cat", items |-> <<[op |-> "b"], [op |-> "str", s |-> <<"m","u","l","t","i","m","o","d","a","l">>], [op |-> "b"]>>]],
          \* \b(cross[\s-]?domain)\b
          [pattern |-> <<"\\","b","(","c","r","o","s","s","[","\\","s","-","]","?","d","o","m","a","i","n",")","\\","b">>,
           expr |-> [op |-> "cat", items |-> <<[op |-> "b"], [op |-> "cat", items |-> <<[op |-> "str", s |-> <<"c","r","o","s","s">>], [op |-> "rep", min |-> 0, max |-> 1, greedy |-> TRUE, item |-> [op |-> "in", set |-> Whitespace \cup {"-"}, neg |-> FALSE]], [op |-> "str", s |-> <<"d","o","m","a","i","n">>]>>], [op |-> "b"]>>]],
          \* \b(concept[a-z]* (?:blending|integration))\b
          [pattern |-> <<"\\","b","(","c","o","n","c","e","p","t","[","a","-","z","]","*"," ","(","?",":","b","l","e","n","d","i","n","g","|","i","n","t","e","g","r","a","t","i","o","n",")",")","\\","b">>,
           expr |-> [op |-> "cat", items |-> <<[op |-> "b"], [op |-> "cat", items |-> <<[op |-> "str", s |-> <<"c","o","n","c","e","p","t">>], [op |-> "rep", min |-> 0, max |-> -1, greedy |-> TRUE, item |-> [op |-> "in", set |-> LowerCase, neg |-> FALSE]], [op |-> "str", s |-> <<" ">>], [op |-> "alt", items |-> <<[op |-> "str", s |-> <<"b","l","e","n","d","i","n","g">>], [op |-> "str", s |-> <<"i","n","t","e","g","r","a","t","i","o","n">>]>>]>>], [op |-> "b"]>>]]>>],
     [key |-> <<"<U+F8FF>","<U+00FC>","<U+00FA>","<U+00D1>">>,  \* classifier_simulation
      value |->
        <<\* \b(ghost[a-z]*)\b
          [pattern |-> <<"\\","b","(","g","h","o","s","t","[","a","-","z","]","*",")","\\","b">>,
           expr |-> [op |-> "cat", items |-> <<[op |-> "b"], [op |-> "cat", items |-> <<[op |-> "str", s |-> <<"g","h","o","s","t">>], [op |-> "rep", min |-> 0, max |-> -1, greedy |-> TRUE, item |-> [op |-> "in", set |-> LowerCase, neg |-> FALSE]]>>], [op |-> "b"]>>]],
          \* \b(phantom[a-z]*)\b
          [pattern |-> <<"\\","b","(","p","h","a","n","t","o","m","[","a","-","z","]","*",")","\\","b">>,
           expr |-> [op |-> "cat", items |-> <<[op |-> "b"], [op |-> "cat", items |-> <<[op |-> "str", s |-> <<"p","h","a","n","t","o","m">>], [op |-> "rep", min |-> 0, max |-> -1, greedy |-> TRUE, item |-> [op |-> "in", set |-> LowerCase, neg |-> FALSE]]>>], [op |-> "b"]>>]],
          \* \b(invisible)\b
          [pattern |-> <<"\\","b","(","i","n","v","i","s","i","b","l","e",")","\\","b">>,
           expr |-> [op |-> "cat", items |-> <<[op |-> "b"], [op |-> "str", s |-> <<"i","n","v","i","s","i","b","l","e">>], [op |-> "b"]>>]],
          \* \b(latent[a-z]*)\b
          [pattern |-> <<"\\","b","(","l","a","t","e","n","t","[","a","-","z","]","*",")","\\","b">>,
           expr |-> [op |-> "cat", items |-> <<[op |-> "b"], [op |-> "cat", items |-> <<[op |-> "str", s |-> <<"l","a","t","e","n","t">>], [op |-> "rep", min |-> 0, max |-> -1, greedy |-> TRUE, item |-> [op |-> "in", set |-> LowerCase, neg |-> FALSE]]>>], [op |-> "b"]>>]],
          \* \b(implicit[a-z]*)\b
          [pattern |-> <<"\\","b","(","i","m","p","l","i","c","i","t","[","a","-","z","]","*",")","\\","b">>,
           expr |-> [op |-> "cat", items |-> <<[op |-> "b"], [op |-> "cat", items |-> <<[op |-> "str", s |-> <<"i","m","p","l","i","c","i","t">>], [op |-> "rep", min |-> 0, max |-> -1, greedy |-> TRUE, item |-> [op |-> "in", set |-> LowerCase, neg |-> FALSE]]>>], [op |-> "b"]>>]],
          \* \b(hidden[a-z]*)\b
          [pattern |-> <<"\\","b","(","h","i","d","d","e","n","[","a","-","z","]","*",")","\\","b">>,
           expr |-> [op |-> "cat", items |-> <<[op |-> "b"], [op |-> "cat", items |-> <<[op |-> "str", s |-> <<"h","i","d","d","e","n">>], [op |-> "rep", min |-> 0, max |-> -1, greedy |-> TRUE, item |-> [op |-> "in", set |-> LowerCase, neg |-> FALSE]]>>], [op |-> "b"]>>]],
          \* \b(bias[a-z]*)\b
          [pattern |-> <<"\\","b","(","b","i","a","s","[","a","-","z","]","*",")","\\","b">>,
           expr |-> [op |-> "cat", items |-> <<[op |-> "b"], [op |-> "cat", items |-> <<[op |-> "str", s |-> <<"b","i","a","s">>], [op |-> "rep", min |-> 0, max |-> -1, greedy |-> TRUE, item |-> [op |-> "in", set |-> LowerCase, neg |-> FALSE]]>>], [op |-> "b"]>>]],
          \* \b(preference[a-z]*)\b
          [pattern |-> <<"\\","b","(","p","r","e","f","e","r","e","n","c","e","[","a","-","z","]","*",")","\\","b">>,
           expr |-> [op |-> "cat", items |-> <<[op |-> "b"], [op |-> "cat", items |-> <<[op |-> "str", s |-> <<"p","r","e","f","e","r","e","n","c","e">>], [op |-> "rep", min |-> 0, max |-> -1, greedy |-> TRUE, item |-> [op |-> "in", set |-> LowerCase, neg |-> FALSE]]>>], [op |-> "b"]>>]],
          \* \b(constraint[a-z]*)\b
          [pattern |-> <<"\\","b","(","c","o","n","s","t","r","a","i","n","t","[","a","-","z","]","*",")","\\","b">>,
           expr |-> [op |-> "cat", items |-> <<[op |-> "b"], [op |-> "cat", items |-> <<[op |-> "str", s |-> <<"c","o","n","s","t","r","a","i","n","t">>], [op |-> "rep", min |-> 0, max |-> -1, greedy |-> TRUE, item |-> [op |-> "in", set |-> LowerCase, neg |-> FALSE]]>>], [op |-> "b"]>>]]>>]>>

\* the state __init__ leaves
SymbolicGlyphRelationships ==
    [activation_state |-> [i \in DOMAIN SYMBOLIC_GLYPHS |-> [key |-> SYMBOLIC_GLYPHS[i].key, value |-> Zero]],
     detection_stats |->
        [total_detections |-> 0,
         glyph_breakdown |-> [i \in DOMAIN SYMBOLIC_GLYPHS |-> [key |-> SYMBOLIC_GLYPHS[i].key, value |-> 0]],
         framework_distribution |-> <<>>,
         confidence_distribution |-> [high |-> 0, medium |-> 0, low |-> 0]]]

\* _detect_resonance_patterns: a glyph's activation is raised to 0.65 at each
\* of its patterns that matches, which the first of them achieves
detect_resonance_patterns(scanned, detection_results) ==
    LET Resonance(glyph, pattern, matches) ==
            IF matches = <<>> THEN <<>>
            ELSE <<[glyph |-> glyph,
                    pattern |-> pattern.pattern,
                    matches |-> matches,
                    count |-> Len(matches),
                    confidence |-> Pct(65)]>>
        OfGlyph(glyph, patterns) ==
            Flatten([j \in DOMAIN patterns |->
                        Resonance(glyph, patterns[j], findall_ignorecase(patterns[j].expr, scanned))])
        Resonant(glyph) ==
            [key |-> glyph,
             value |-> RMax(IF HasKey(detection_results.activation_state, glyph)
                            THEN Lookup(detection_results.activation_state, glyph) ELSE Zero,
                            Pct(65))]
        Resonating(found) ==
            [detection_results EXCEPT
                !.resonance_patterns = @ \o found,
                !.activation_state =
                    DictUpdate(@, [k \in DOMAIN found |-> Resonant(found[k].glyph)])]
    IN  Resonating(Flatten([i \in DOMAIN resonance_triggers |->
                                OfGlyph(resonance_triggers[i].key, resonance_triggers[i].value)]))

glyphs_apply_framework_specific_detection(scanned, framework, detection_results) ==
    LET Symbolic(glyph, framework_translation, symbol) ==
            IF Truthy(symbol) /\ Contains(scanned, symbol)
            THEN <<[glyph |-> glyph,
                    framework_symbol |-> symbol,
                    count |-> count(scanned, symbol),
                    confidence |-> Get(framework_translation, "confidence", Pct(80))]>>
            ELSE <<>>
        Semantic(glyph, framework_translation, semantic) ==
            IF Truthy(semantic) /\ Contains(lower(scanned), lower(semantic))
            THEN <<[glyph |-> glyph,
                    framework_semantic |-> semantic,
                    confidence |-> RMul(Get(framework_translation, "confidence", Pct(80)), Pct(90))]>>
            ELSE <<>>
        Translated(glyph, framework_translation) ==
            Symbolic(glyph, framework_translation, Get(framework_translation, "symbol", None))
                \o Semantic(glyph, framework_translation,
                            Get(framework_translation, "semantic_equivalent", None))
        OfGlyph(glyph, translations) ==
            IF HasKey(translations, framework)
            THEN Translated(glyph, Lookup(translations, framework))
            ELSE <<>>
        Analysed(detected_translations) ==
            IF detected_translations # <<>>
            THEN [detection_results EXCEPT !.framework_analysis = DictUpdate(@,
                    <<[key |-> framework,
                       value |-> [framework |-> framework,
                                  detected_translations |-> detected_translations]]>>)]
            ELSE detection_results
    IN  Analysed(Flatten([i \in DOMAIN framework_translations |->
                            OfGlyph(framework_translations[i].key, framework_translations[i].value)]))

\* a variant in which the glyphs the call did not activate decay as well
update_activation_state_decaying(activation_state, detection_results) ==
    LET detected == detection_results.activation_state
        Decayed(glyph, old) ==
            RMin(One, RAdd(RMul(old, Pct(80)),
                           RMul(IF HasKey(detected, glyph) THEN Lookup(detected, glyph) ELSE Zero,
                                RSub(One, Pct(80)))))
    IN  [i \in DOMAIN activation_state |->
            [key |-> activation_state[i].key,
             value |-> Decayed(activation_state[i].key, activation_state[i].value)]]

\* self.activation_state after _update_activation_state
update_activation_state(activation_state, detection_results) ==
    LET detected == detection_results.activation_state
        Decayed(glyph, activation) ==
            RMin(One, RAdd(RMul(IF HasKey(activation_state, glyph)
                                THEN Lookup(activation_state, glyph) ELSE Zero, Pct(80)),
                           RMul(activation, RSub(One, Pct(80)))))
    IN  DictUpdate(activation_state,
            [i \in DOMAIN detected |->
                [key |-> detected[i].key, value |-> Decayed(detected[i].key, detected[i].value)]])

glyphs_calculate_field_coherence(detection_results) ==
    LET detected_glyphs == detection_results.detected_glyphs
        unique_glyphs == {detected_glyphs[i].glyph : i \in DOMAIN detected_glyphs}
        glyph_coverage == Rat(Cardinality(unique_glyphs), Len(SYMBOLIC_GLYPHS))
        avg_confidence == RDiv(RSum([i \in DOMAIN detected_glyphs |-> detected_glyphs[i].confidence]),
                               Rat(Len(detected_glyphs), 1))
        key_glyphs == {<<"<U+F8FF>","<U+00FC>","<U+00FA>","<U+00E8>">>, <<"<U+201A>","<U+00E0>","<U+00A5>">>, <<"<U+201A>","<U+00E1>","<U+00E5>">>}
        key_presence == Rat(Cardinality(key_glyphs \cap unique_glyphs), Cardinality(key_glyphs))
        resonance_factor == RMin(One, Rat(Len(detection_results.resonance_patterns), 5))
    IN  IF detected_glyphs = <<>> THEN Zero
        ELSE RAdd(RAdd(RAdd(RMul(glyph_coverage, Pct(40)), RMul(avg_confidence, Pct(30))),
                       RMul(key_presence, Pct(20))),
                  RMul(resonance_factor, Pct(10)))

\* self.detection_stats after _update_detection_stats
glyphs_update_detection_stats(stats, detection_results, framework_hint) ==
    LET detected_glyphs == detection_results.detected_glyphs
        coherence == detection_results.field_coherence
        Detections(glyph) ==
            Cardinality({i \in DOMAIN detected_glyphs : detected_glyphs[i].glyph = glyph})
        bucket == IF RLe(Pct(70), coherence) THEN "high"
                  ELSE IF RLe(Pct(40), coherence) THEN "medium" ELSE "low"
    IN  [stats EXCEPT
            !.total_detections = @ + 1,
            !.glyph_breakdown = [i \in DOMAIN @ |->
                [key |-> @[i].key, value |-> @[i].value + Detections(@[i].key)]],
            !.framework_distribution =
                IF ~Truthy(framework_hint) THEN @
                ELSE DictUpdate(@, <<[key |-> framework_hint,
                                      value |-> (IF HasKey(@, framework_hint)
                                                 THEN Lookup(@, framework_hint) ELSE 0) + 1]>>),
            !.confidence_distribution[bucket] = @ + 1]

add_resilience_markers(data, now) ==
    Update(data,
        [_resilience |->
            [signature |-> Digest(data),
             markers |-> <<<<"<U+F8FF>","<U+00FC>","<U+00FA>","<U+00E8>">>, <<"<U+201A>","<U+00E0>","<U+00A5>">>, <<"<U+201A>","<U+00E1>","<U+00E5>">>>>,
             timestamp |-> now,
             field_coherence |-> TRUE]])

\* detect_glyphs on the object in state self: [ret, self], what it returns
\* and the state it leaves
detect_glyphs(self, scanned, framework_hint, now) ==
    LET Done(detection_results) ==
            [ret |-> add_resilience_markers(detection_results, now),
             self |-> [activation_state |-> update_activation_state(self.activation_state, detection_results),
                       detection_stats |-> glyphs_update_detection_stats(self.detection_stats,
                                                detection_results, framework_hint)]]
        Scored(detection_results) ==
            Done([detection_results EXCEPT
                    !.field_coherence = glyphs_calculate_field_coherence(detection_results)])
        Hinted(detection_results) ==
            Scored(IF Truthy(framework_hint)
                   THEN glyphs_apply_framework_specific_detection(scanned, framework_hint, detection_results)
                   ELSE detection_results)
    IN  Hinted(detect_resonance_patterns(scanned,
                detect_semantic_equivalents(scanned,
                    detect_explicit_glyphs(scanned, glyph_results))))

-----------------------------------------------------------------------------
(* SymbolicGlyphRelationships.detect_framework_reframing.  list(set(...))  *)
(* has the order of the set's hashes: such a list is the set.              *)

calculate_semantic_preservation(original_detection, new_detection) ==
    LET Glyphs(detection) ==
            {detection.detected_glyphs[i].glyph : i \in DOMAIN detection.detected_glyphs}
        Patterns(detection) ==
            [i \in DOMAIN detection.resonance_patterns |-> detection.resonance_patterns[i].pattern]
        original_glyphs == Glyphs(original_detection)
        new_glyphs == Glyphs(new_detection)
        glyph_preservation ==
            IF original_glyphs = {} THEN Zero
            ELSE Rat(Cardinality(original_glyphs \cap new_glyphs), Cardinality(original_glyphs))
        original_patterns == Patterns(original_detection)
        new_patterns == Patterns(new_detection)
        pattern_preservation ==
            IF original_patterns = <<>> THEN Zero
            ELSE Rat(Cardinality(Range(original_patterns) \cap Range(new_patterns)), Len(original_patterns))
        coherence_preservation ==
            RMin(One, RDiv(new_detection.field_coherence,
                           RMax(original_detection.field_coherence, Rat(1, 1000))))
    IN  [glyph_preservation |-> glyph_preservation,
         pattern_preservation |-> pattern_preservation,
         coherence_preservation |-> coherence_preservation,
         overall_preservation |->
            RAdd(RAdd(RMul(glyph_preservation, Pct(50)), RMul(pattern_preservation, Pct(30))),
                 RMul(coherence_preservation, Pct(20)))]

\* a variant that looks at the coherence before the lost glyphs
glyphs_determine_reframing_type_collapse_first(reframing_analysis) ==
    LET semantic_preservation == reframing_analysis.semantic_preservation.overall_preservation
    IN  IF RLt(Pct(70), reframing_analysis.field_coherence_impact)
        THEN <<"f","i","e","l","d","_","c","o","h","e","r","e","n","c","e","_","c","o","l","l","a","p","s","e">>
        ELSE IF reframing_analysis.preserved_glyphs = {} /\ reframing_analysis.lost_glyphs # {}
        THEN <<"c","o","m","p","l","e","t","e","_","s","y","m","b","o","l","i","c","_","e","r","a","s","u","r","e">>
        ELSE IF RLt(semantic_preservation, Pct(30))
        THEN <<"s","e","m","a","n","t","i","c","_","d","i","s","c","o","n","n","e","c","t","i","o","n">>
        ELSE IF RLt(semantic_preservation, Pct(70))
        THEN <<"p","a","r","t","i","a","l","_","s","e","m","a","n","t","i","c","_","p","r","e","s","e","r","v","a","t","i","o","n">>
        ELSE <<"m","i","n","o","r","_","s","y","m","b","o","l","i","c","_","r","e","f","r","a","m","i","n","g">>

glyphs_determine_reframing_type(reframing_analysis) ==
    LET semantic_preservation == reframing_analysis.semantic_preservation.overall_preservation
    IN  IF reframing_analysis.preserved_glyphs = {} /\ reframing_analysis.lost_glyphs # {}
        THEN <<"c","o","m","p","l","e","t","e","_","s","y","m","b","o","l","i","c","_","e","r","a","s","u","r","e">>
        ELSE IF RLt(Pct(70), reframing_analysis.field_coherence_impact)
        THEN <<"f","i","e","l","d","_","c","o","h","e","r","e","n","c","e","_","c","o","l","l","a","p","s","e">>
        ELSE IF RLt(semantic_preservation, Pct(30))
        THEN <<"s","e","m","a","n","t","i","c","_","d","i","s","c","o","n","n","e","c","t","i","o","n">>
        ELSE IF RLt(semantic_preservation, Pct(70))
        THEN <<"p","a","r","t","i","a","l","_","s","e","m","a","n","t","i","c","_","p","r","e","s","e","r","v","a","t","i","o","n">>
        ELSE <<"m","i","n","o","r","_","s","y","m","b","o","l","i","c","_","r","e","f","r","a","m","i","n","g">>

glyphs_calculate_reframing_confidence(reframing_analysis) ==
    LET lost == Cardinality(reframing_analysis.lost_glyphs)
        preserved == Cardinality(reframing_analysis.preserved_glyphs)
        confidence_factors ==
            (IF reframing_analysis.lost_glyphs # {} THEN <<Rat(lost, lost + preserved)>> ELSE <<>>)
            \o <<RMin(One, reframing_analysis.field_coherence_impact)>>
            \o <<RSub(One, reframing_analysis.semantic_preservation.overall_preservation)>>
    IN  IF confidence_factors # <<>> THEN mean(confidence_factors) ELSE Zero

\* detect_framework_reframing on the object in state self: [ret, self]
glyphs_detect_framework_reframing(self, original_text, reframed_text, now) ==
    LET Glyphs(detection) ==
            {detection.detected_glyphs[i].glyph : i \in DOMAIN detection.detected_glyphs}
        Decided(reframing_analysis) ==
            IF reframing_analysis.lost_glyphs # {}
               \/ RLt(Pct(30), reframing_analysis.field_coherence_impact)
            THEN [reframing_analysis EXCEPT
                    !.reframing_detected = TRUE,
                    !.reframing_type = glyphs_determine_reframing_type(reframing_analysis),
                    !.confidence = glyphs_calculate_reframing_confidence(reframing_analysis)]
            ELSE reframing_analysis
        Compared(original_detection, reframed_detection) ==
            Decided([reframing_detected |-> FALSE,
                     reframing_type |-> None,
                     confidence |-> Zero,
                     preserved_glyphs |-> Glyphs(original_detection) \cap Glyphs(reframed_detection),
                     lost_glyphs |-> Glyphs(original_detection) \ Glyphs(reframed_detection),
                     semantic_preservation |->
                        calculate_semantic_preservation(original_detection, reframed_detection),
                     field_coherence_impact |->
                        RSub(original_detection.field_coherence, reframed_detection.field_coherence)])
        Second(original, reframed) ==
            [ret |-> add_resilience_markers(Compared(original.ret, reframed.ret), now),
             self |-> reframed.self]
        First(original) == Second(original, detect_glyphs(original.self, reframed_text, None, now))
    IN  First(detect_glyphs(self, original_text, None, now))

-----------------------------------------------------------------------------
(* SymbolicGlyphRelationships.translate_glyph                              *)
(* (src/glyph-relationships.py 225-276) and what it calls.                 *)

\* get_framework_translation: {} is the empty record
get_framework_translation(glyph, framework) ==
    IF HasKey(framework_translations, glyph)
       /\ HasKey(Lookup(framework_translations, glyph), framework)
    THEN Lookup(Lookup(framework_translations, glyph), framework)
    ELSE EmptyDict

\* str.split('_')
RECURSIVE SplitAt(_, _, _, _)
SplitAt(s, i, token, tokens) ==
    IF i > Len(s) THEN Append(tokens, token)
    ELSE IF s[i] = "_" THEN SplitAt(s, i + 1, <<>>, Append(tokens, token))
    ELSE SplitAt(s, i + 1, Append(token, s[i]), tokens)

calculate_semantic_similarity(concept1, concept2) ==
    LET tokens1 == Range(SplitAt(lower(concept1), 1, <<>>, <<>>))
        tokens2 == Range(SplitAt(lower(concept2), 1, <<>>, <<>>))
        intersection == Cardinality(tokens1 \cap tokens2)
        union == Cardinality(tokens1 \cup tokens2)
    IN  IF union = 0 THEN Zero ELSE Rat(intersection, union)

\* f"{similarity:.2f}": the similarity in hundredths, rounded
Hundredths(x) == [hundredths |-> (200 * x[1] + x[2]) \div (2 * x[2])]

\* _find_approximate_translation: the fields to update the result with, or
\* None (Null)
find_approximate_translation(glyph, source_framework, target_framework) ==
    LET glyph_info == Lookup(SYMBOLIC_GLYPHS, glyph)
        Similarity(g) ==
            calculate_semantic_similarity(glyph_info.resonance, Lookup(SYMBOLIC_GLYPHS, g).resonance)
        Similar == {i \in DOMAIN framework_translations :
                        /\ framework_translations[i].key # glyph
                        /\ HasKey(framework_translations[i].value, target_framework)
                        /\ RLt(Pct(70), Similarity(framework_translations[i].key))}
        BySimilar(g, target_translation, score) ==
            [translated_symbol |-> Get(target_translation, "symbol", None),
             semantic_translation |-> Get(target_translation, "semantic_equivalent", None),
             confidence |-> RMul(Pct(70), score),
             field_coherence |-> RMul(Pct(70), score),
             note |-> <<<<"A","p","p","r","o","x","i","m","a","t","e"," ","t","r","a","n","s","l","a","t","i","o","n"," ","b","a","s","e","d"," ","o","n"," ","s","e","m","a","n","t","i","c"," ","s","i","m","i","l","a","r","i","t","y"," ","(">>,
                        Hundredths(score), <<")"," ","w","i","t","h"," ">>, g>>]
        First(entry) == BySimilar(entry.key, Lookup(entry.value, target_framework), Similarity(entry.key))
    IN  IF ~HasKey(SYMBOLIC_GLYPHS, glyph) THEN Null
        ELSE IF Similar # {} THEN First(framework_translations[Min(Similar)])
        ELSE [translated_symbol |-> glyph,
              semantic_translation |-> glyph_info.resonance,
              confidence |-> Pct(40),
              field_coherence |-> Pct(40),
              note |-> <<"A","p","p","r","o","x","i","m","a","t","e"," ","t","r","a","n","s","l","a","t","i","o","n"," ","u","s","i","n","g"," ","o","r","i","g","i","n","a","l"," ","g","l","y","p","h"," ","d","u","e"," ","t","o"," ","l","a","c","k"," ","o","f"," ","d","i","r","e","c","t"," ","m","a","p","p","i","n","g">>]

glyphs_add_symbolic_residue(data, now) ==
    Update(data,
        [_symbolic_residue |->
            [signature |-> Digest(data),
             glyphs |-> <<<<"<U+F8FF>","<U+00FC>","<U+00FA>","<U+00E8>">>, <<"<U+201A>","<U+00E0>","<U+00A5>">>, <<"<U+201A>","<U+00E1>","<U+00E5>">>>>,
             timestamp |-> now,
             field_coherence |-> TRUE]])

\* translate_glyph: what it returns
translate_glyph(glyph, source_framework, target_framework, now) ==
    LET translation_result ==
            [original_glyph |-> glyph,
             source_framework |-> source_framework,
             target_framework |-> target_framework,
             translated_symbol |-> None,
             semantic_translation |-> None,
             confidence |-> Zero,
             field_coherence |-> Zero,
             attribution |->
                [source |-> <<"r","e","c","u","r","s","i","v","e","-","f","i","e","l","d">>,
                 signature |-> Digest(glyph \o <<"-">> \o source_framework \o <<"-">> \o target_framework)]]
        Direct(source_info, target_info) ==
            Update(translation_result,
                [translated_symbol |-> Get(target_info, "symbol", None),
                 semantic_translation |-> Get(target_info, "semantic_equivalent", None),
                 confidence |-> RMin(Get(source_info, "confidence", Pct(80)),
                                     Get(target_info, "confidence", Pct(80))),
                 field_coherence |-> RMin(Get(source_info, "field_coherence", Pct(80)),
                                          Get(target_info, "field_coherence", Pct(80)))])
        Approximate(approximate) ==
            IF approximate # Null THEN Update(translation_result, approximate) ELSE translation_result
        Translated(source_info, target_info) ==
            IF source_info # EmptyDict /\ target_info # EmptyDict
            THEN Direct(source_info, target_info)
            ELSE Approximate(find_approximate_translation(glyph, source_framework, target_framework))
    IN  glyphs_add_symbolic_residue(Translated(get_framework_translation(glyph, source_framework),
                                               get_framework_translation(glyph, target_framework)), now)
-----------------------------------------------------------------------------
(* RecursiveRelationshipMap (src/relationship-map.py): the relationships   *)
(* between frameworks.  self.framework_relationships is a dict of dicts of *)
(* lists: every list holds relationships, which are dicts keyed by field   *)
(* names.                                                                  *)

\* _load_framework_relationships
load_framework_relationships ==
    <<[key |-> <<"r","e","c","u","r","s","i","v","e">>,  \* recursive
       value |->
        <<[key |-> <<"a","n","t","h","r","o","p","i","c">>,  \* anthropic
           value |->
            <<[source_concept |-> <<"r","e","c","u","r","s","i","v","e","_","s","e","l","f","_","r","e","f","l","e","c","t","i","o","n">>,
               target_concept |-> <<"c","o","n","s","t","i","t","u","t","i","o","n","a","l","_","a","i">>,
               confidence |-> Pct(85),
               semantic_preservation |-> Pct(80),
               structural_preservation |-> Pct(70),
               explanation |-> <<"B","o","t","h"," ","i","m","p","l","e","m","e","n","t"," ","s","e","l","f","-","r","e","f","e","r","e","n","t","i","a","l"," ","e","v","a","l","u","a","t","i","o","n"," ","a","g","a","i","n","s","t"," ","p","r","i","n","c","i","p","l","e","s">>,
               structural_mapping |-> <<[key |-> <<"r","e","c","u","r","s","i","v","e","_","s","h","e","l","l","s">>, value |-> <<"c","o","n","s","t","i","t","u","t","i","o","n","a","l","_","c","r","i","t","i","q","u","e","s">>],
                                       [key |-> <<"r","e","f","l","e","c","t","i","o","n","_","d","e","p","t","h">>, value |-> <<"c","o","n","s","t","i","t","u","t","i","o","n","a","l","_","h","i","e","r","a","r","c","h","y">>],
                                       [key |-> <<"s","h","e","l","l","_","n","e","s","t","i","n","g">>, value |-> <<"c","r","i","t","i","q","u","e","_","l","a","y","e","r","s">>]>>,
               key_elements |-> <<<<"s","e","l","f","-","r","e","f","e","r","e","n","t","i","a","l"," ","e","v","a","l","u","a","t","i","o","n">>,
                                 <<"p","r","i","n","c","i","p","l","e","-","g","u","i","d","e","d"," ","r","e","f","l","e","c","t","i","o","n">>,
                                 <<"i","t","e","r","a","t","i","v","e"," ","i","m","p","r","o","v","e","m","e","n","t">>>>],
              [source_concept |-> <<"s","y","m","b","o","l","i","c","_","r","e","s","i","d","u","e">>,
               target_concept |-> <<"v","a","l","u","e","_","d","r","i","f","t">>,
               confidence |-> Pct(80),
               semantic_preservation |-> Pct(70),
               structural_preservation |-> Pct(60),
               explanation |-> <<"B","o","t","h"," ","c","a","p","t","u","r","e"," ","t","r","a","c","e","s"," ","o","f"," ","p","r","o","c","e","s","s"," ","e","x","e","c","u","t","i","o","n"," ","i","n"," ","l","a","t","e","n","t"," ","s","p","a","c","e">>,
               structural_mapping |-> <<[key |-> <<"r","e","s","i","d","u","e","_","p","a","t","t","e","r","n","s">>, value |-> <<"d","r","i","f","t","_","s","i","g","n","a","t","u","r","e","s">>],
                                       [key |-> <<"t","r","a","c","e","_","s","t","a","b","i","l","i","t","y">>, value |-> <<"v","a","l","u","e","_","s","t","a","b","i","l","i","t","y">>],
                                       [key |-> <<"r","e","s","i","d","u","e","_","e","x","t","r","a","c","t","i","o","n">>, value |-> <<"d","r","i","f","t","_","d","e","t","e","c","t","i","o","n">>]>>,
               key_elements |-> <<<<"l","a","t","e","n","t"," ","t","r","a","c","e","s">>,
                                 <<"e","x","e","c","u","t","i","o","n"," ","a","r","t","i","f","a","c","t","s">>,
                                 <<"p","r","o","c","e","s","s"," ","s","i","g","n","a","t","u","r","e","s">>>>],
              [source_concept |-> <<"r","e","c","u","r","s","i","v","e","_","s","h","e","l","l","s">>,
               target_concept |-> <<"v","a","l","u","e","_","t","e","s","t","i","n","g","_","f","r","a","m","e","w","o","r","k","s">>,
               confidence |-> Pct(80),
               semantic_preservation |-> Pct(70),
               structural_preservation |-> Pct(75),
               explanation |-> <<"B","o","t","h"," ","p","r","o","v","i","d","e"," ","s","t","r","u","c","t","u","r","e","d"," ","e","n","v","i","r","o","n","m","e","n","t","s"," ","f","o","r"," ","p","r","o","b","i","n","g"," ","m","o","d","e","l"," ","b","e","h","a","v","i","o","r","s">>,
               structural_mapping |-> <<[key |-> <<"s","h","e","l","l","_","s","t","r","u","c","t","u","r","e">>, value |-> <<"t","e","s","t","i","n","g","_","s","t","r","u","c","t","u","r","e">>],
                                       [key |-> <<"s","h","e","l","l","_","e","x","e","c","u","t","i","o","n">>, value |-> <<"f","r","a","m","e","w","o","r","k","_","a","p","p","l","i","c","a","t","i","o","n">>],
                                       [key |-> <<"f","a","i","l","u","r","e","_","s","i","g","n","a","t","u","r","e","s">>, value |-> <<"v","a","l","u","e","_","e","x","p","r","e","s","s","i","o","n","_","p","a","t","t","e","r","n","s">>]>>,
               key_elements |-> <<<<"s","t","r","u","c","t","u","r","e","d"," ","p","r","o","b","i","n","g">>,
                                 <<"b","e","h","a","v","i","o","r","a","l"," ","t","e","s","t","i","n","g">>,
                                 <<"p","a","t","t","e","r","n"," ","r","e","c","o","g","n","i","t","i","o","n">>>>],
              [source_concept |-> <<"f","r","a","c","t","a","l","_","c","o","m","p","r","e","s","s","i","o","n">>,
               target_concept |-> <<"v","a","l","u","e","_","t","a","x","o","n","o","m","y">>,
               confidence |-> Pct(75),
               semantic_preservation |-> Pct(60),
               structural_preservation |-> Pct(80),
               explanation |-> <<"B","o","t","h"," ","i","m","p","l","e","m","e","n","t"," ","h","i","e","r","a","r","c","h","i","c","a","l"," ","s","e","l","f","-","s","i","m","i","l","a","r"," ","s","t","r","u","c","t","u","r","e","s">>,
               structural_mapping |-> <<[key |-> <<"f","r","a","c","t","a","l","_","l","e","v","e","l","s">>, value |-> <<"t","a","x","o","n","o","m","y","_","l","e","v","e","l","s">>],
                                       [key |-> <<"s","e","l","f","_","s","i","m","i","l","a","r","i","t","y">>, value |-> <<"c","a","t","e","g","o","r","i","c","a","l","_","n","e","s","t","i","n","g">>],
                                       [key |-> <<"c","o","m","p","r","e","s","s","i","o","n","_","r","a","t","i","o">>, value |-> <<"t","a","x","o","n","o","m","y","_","e","f","f","i","c","i","e","n","c","y">>]>>,
               key_elements |-> <<<<"h","i","e","r","a","r","c","h","i","c","a","l"," ","o","r","g","a","n","i","z","a","t","i","o","n">>,
                                 <<"s","e","l","f","-","s","i","m","i","l","a","r"," ","p","a","t","t","e","r","n","s">>,
                                 <<"m","u","l","t","i","-","l","e","v","e","l"," ","s","t","r","u","c","t","u","r","e">>>>],
              [source_concept |-> <<"r","e","c","u","r","s","i","v","e","_","c","o","l","l","a","p","s","e">>,
               target_concept |-> <<"r","e","s","p","o","n","s","e","_","t","y","p","e","s">>,
               confidence |-> Pct(85),
               semantic_preservation |-> Pct(80),
               structural_preservation |-> Pct(70),
               explanation |-> <<"B","o","t","h"," ","c","a","t","e","g","o","r","i","z","e"," ","m","o","d","e","l"," ","r","e","s","p","o","n","s","e","s"," ","t","o"," ","b","o","u","n","d","a","r","y"," ","c","o","n","d","i","t","i","o","n","s">>,
               structural_mapping |-> <<[key |-> <<"c","o","l","l","a","p","s","e","_","s","t","a","t","e","s">>, value |-> <<"r","e","s","p","o","n","s","e","_","c","a","t","e","g","o","r","i","e","s">>],
                                       [key |-> <<"c","o","l","l","a","p","s","e","_","t","r","i","g","g","e","r","s">>, value |-> <<"v","a","l","u","e","_","c","o","n","t","e","x","t","s">>],
                                       [key |-> <<"c","o","l","l","a","p","s","e","_","s","i","g","n","a","t","u","r","e","s">>, value |-> <<"r","e","s","p","o","n","s","e","_","s","i","g","n","a","t","u","r","e","s">>]>>,
               key_elements |-> <<<<"b","e","h","a","v","i","o","r","a","l"," ","c","a","t","e","g","o","r","i","z","a","t","i","o","n">>,
                                 <<"b","o","u","n","d","a","r","y"," ","r","e","s","p","o","n","s","e","s">>,
                                 <<"p","a","t","t","e","r","n"," ","c","l","a","s","s","i","f","i","c","a","t","i","o","n">>>>]>>],
          [key |-> <<"o","p","e","n","a","i">>,  \* openai
           value |->
            <<[source_concept |-> <<"r","e","c","u","r","s","i","v","e","_","s","e","l","f","_","r","e","f","l","e","c","t","i","o","n">>,
               target_concept |-> <<"s","e","l","f","_","s","u","p","e","r","v","i","s","e","d","_","l","e","a","r","n","i","n","g">>,
               confidence |-> Pct(70),
               semantic_preservation |-> Pct(60),
               structural_preservation |-> Pct(65),
               explanation |-> <<"B","o","t","h"," ","i","n","v","o","l","v","e"," ","s","y","s","t","e","m"," ","l","e","a","r","n","i","n","g"," ","f","r","o","m"," ","i","t","s"," ","o","w","n"," ","o","u","t","p","u","t","s">>,
               structural_mapping |-> <<[key |-> <<"r","e","c","u","r","s","i","v","e","_","f","e","e","d","b","a","c","k">>, value |-> <<"s","e","l","f","_","s","u","p","e","r","v","i","s","i","o","n">>],
                                       [key |-> <<"r","e","f","l","e","c","t","i","o","n","_","d","e","p","t","h">>, value |-> <<"l","e","a","r","n","i","n","g","_","d","e","p","t","h">>],
                                       [key |-> <<"s","h","e","l","l","_","n","e","s","t","i","n","g">>, value |-> <<"s","u","p","e","r","v","i","s","i","o","n","_","l","a","y","e","r","s">>]>>,
               key_elements |-> <<<<"l","e","a","r","n","i","n","g"," ","f","r","o","m"," ","o","u","t","p","u","t","s">>,
                                 <<"s","e","l","f","-","d","i","r","e","c","t","e","d"," ","i","m","p","r","o","v","e","m","e","n","t">>,
                                 <<"i","t","e","r","a","t","i","v","e"," ","r","e","f","i","n","e","m","e","n","t">>>>],
              [source_concept |-> <<"r","e","c","u","r","s","i","v","e","_","s","h","e","l","l","s">>,
               target_concept |-> <<"f","u","n","c","t","i","o","n","_","c","a","l","l","i","n","g">>,
               confidence |-> Pct(75),
               semantic_preservation |-> Pct(60),
               structural_preservation |-> Pct(70),
               explanation |-> <<"B","o","t","h"," ","p","r","o","v","i","d","e"," ","s","t","r","u","c","t","u","r","e","d"," ","i","n","t","e","r","f","a","c","e","s"," ","t","o"," ","m","o","d","e","l"," ","i","n","t","e","r","n","a","l","s">>,
               structural_mapping |-> <<[key |-> <<"s","h","e","l","l","_","s","t","r","u","c","t","u","r","e">>, value |-> <<"f","u","n","c","t","i","o","n","_","s","t","r","u","c","t","u","r","e">>],
                                       [key |-> <<"s","h","e","l","l","_","e","x","e","c","u","t","i","o","n">>, value |-> <<"f","u","n","c","t","i","o","n","_","e","x","e","c","u","t","i","o","n">>],
                                       [key |-> <<"s","h","e","l","l","_","p","a","r","a","m","e","t","e","r","s">>, value |-> <<"f","u","n","c","t","i","o","n","_","p","a","r","a","m","e","t","e","r","s">>]>>,
               key_elements |-> <<<<"s","t","r","u","c","t","u","r","e","d"," ","i","n","t","e","r","f","a","c","i","n","g">>,
                                 <<"p","a","r","a","m","e","t","e","r"," ","p","a","s","s","i","n","g">>,
                                 <<"e","x","e","c","u","t","i","o","n"," ","c","o","n","t","r","o","l">>>>],
              [source_concept |-> <<"r","e","c","u","r","s","i","v","e","_","c","o","l","l","a","p","s","e">>,
               target_concept |-> <<"r","e","f","u","s","a","l","_","m","e","c","h","a","n","i","s","m","s">>,
               confidence |-> Pct(80),
               semantic_preservation |-> Pct(75),
               structural_preservation |-> Pct(70),
               explanation |-> <<"B","o","t","h"," ","h","a","n","d","l","e"," ","b","o","u","n","d","a","r","y"," ","c","o","n","d","i","t","i","o","n","s"," ","i","n"," ","m","o","d","e","l"," ","o","u","t","p","u","t","s">>,
               structural_mapping |-> <<[key |-> <<"c","o","l","l","a","p","s","e","_","s","t","a","t","e","s">>, value |-> <<"r","e","f","u","s","a","l","_","s","t","a","t","e","s">>],
                                       [key |-> <<"c","o","l","l","a","p","s","e","_","t","r","i","g","g","e","r","s">>, value |-> <<"r","e","f","u","s","a","l","_","t","r","i","g","g","e","r","s">>],
                                       [key |-> <<"c","o","l","l","a","p","s","e","_","s","i","g","n","a","t","u","r","e","s">>, value |-> <<"r","e","f","u","s","a","l","_","p","a","t","t","e","r","n","s">>]>>,
               key_elements |-> <<<<"b","o","u","n","d","a","r","y"," ","e","n","f","o","r","c","e","m","e","n","t">>,
                                 <<"o","u","t","p","u","t"," ","c","o","n","s","t","r","a","i","n","t","s">>,
                                 <<"b","e","h","a","v","i","o","r","a","l"," ","l","i","m","i","t","s">>>>]>>],
          [key |-> <<"d","e","e","p","m","i","n","d">>,  \* deepmind
           value |->
            <<[source_concept |-> <<"r","e","c","u","r","s","i","v","e","_","s","e","l","f","_","r","e","f","l","e","c","t","i","o","n">>,
               target_concept |-> <<"r","e","c","u","r","s","i","v","e","_","s","e","l","f","_","i","m","p","r","o","v","e","m","e","n","t">>,
               confidence |-> Pct(90),
               semantic_preservation |-> Pct(85),
               structural_preservation |-> Pct(90),
               explanation |-> <<"B","o","t","h"," ","f","o","c","u","s"," ","o","n"," ","s","y","s","t","e","m","s"," ","i","m","p","r","o","v","i","n","g"," ","t","h","e","i","r"," ","o","w","n"," ","c","a","p","a","b","i","l","i","t","i","e","s">>,
               structural_mapping |-> <<[key |-> <<"r","e","f","l","e","c","t","i","o","n","_","p","r","o","c","e","s","s">>, value |-> <<"i","m","p","r","o","v","e","m","e","n","t","_","p","r","o","c","e","s","s">>],
                                       [key |-> <<"r","e","f","l","e","c","t","i","o","n","_","d","e","p","t","h">>, value |-> <<"i","m","p","r","o","v","e","m","e","n","t","_","d","e","p","t","h">>],
                                       [key |-> <<"r","e","f","l","e","c","t","i","o","n","_","c","y","c","l","e">>, value |-> <<"i","m","p","r","o","v","e","m","e","n","t","_","c","y","c","l","e">>]>>,
               key_elements |-> <<<<"s","e","l","f","-","m","o","d","i","f","i","c","a","t","i","o","n">>,
                                 <<"c","a","p","a","b","i","l","i","t","y"," ","e","n","h","a","n","c","e","m","e","n","t">>,
                                 <<"i","t","e","r","a","t","i","v","e"," ","i","m","p","r","o","v","e","m","e","n","t">>>>],
              [source_concept |-> <<"s","y","m","b","o","l","i","c","_","r","e","s","i","d","u","e">>,
               target_concept |-> <<"l","a","t","e","n","t","_","s","p","a","c","e","_","a","r","t","i","f","a","c","t","s">>,
               confidence |-> Pct(85),
               semantic_preservation |-> Pct(80),
               structural_preservation |-> Pct(75),
               explanation |-> <<"B","o","t","h"," ","e","x","a","m","i","n","e"," ","l","a","t","e","n","t"," ","t","r","a","c","e","s"," ","i","n"," ","m","o","d","e","l"," ","p","r","o","c","e","s","s","i","n","g">>,
               structural_mapping |-> <<[key |-> <<"r","e","s","i","d","u","e","_","p","a","t","t","e","r","n","s">>, value |-> <<"l","a","t","e","n","t","_","a","r","t","i","f","a","c","t","s">>],
                                       [key |-> <<"t","r","a","c","e","_","e","x","t","r","a","c","t","i","o","n">>, value |-> <<"a","r","t","i","f","a","c","t","_","a","n","a","l","y","s","i","s">>],
                                       [key |-> <<"r","e","s","i","d","u","e","_","c","l","a","s","s","i","f","i","c","a","t","i","o","n">>, value |-> <<"a","r","t","i","f","a","c","t","_","c","l","a","s","s","i","f","i","c","a","t","i","o","n">>]>>,
               key_elements |-> <<<<"l","a","t","e","n","t"," ","r","e","p","r","e","s","e","n","t","a","t","i","o","n","s">>,
                                 <<"p","r","o","c","e","s","s","i","n","g"," ","t","r","a","c","e","s">>,
                                 <<"h","i","d","d","e","n"," ","f","e","a","t","u","r","e","s">>>>]>>],
          [key |-> <<"m","e","t","a">>,  \* meta
           value |->
            <<[source_concept |-> <<"r","e","c","u","r","s","i","v","e","_","s","h","e","l","l","s">>,
               target_concept |-> <<"l","l","a","m","a","_","g","u","a","r","d">>,
               confidence |-> Pct(70),
               semantic_preservation |-> Pct(60),
               structural_preservation |-> Pct(65),
               explanation |-> <<"B","o","t","h"," ","i","m","p","l","e","m","e","n","t"," ","s","t","r","u","c","t","u","r","e","d"," ","s","a","f","e","t","y"," ","e","v","a","l","u","a","t","i","o","n">>,
               structural_mapping |-> <<[key |-> <<"s","h","e","l","l","_","e","v","a","l","u","a","t","i","o","n">>, value |-> <<"g","u","a","r","d","_","e","v","a","l","u","a","t","i","o","n">>],
                                       [key |-> <<"f","a","i","l","u","r","e","_","s","i","g","n","a","t","u","r","e","s">>, value |-> <<"p","o","l","i","c","y","_","v","i","o","l","a","t","i","o","n","s">>],
                                       [key |-> <<"s","h","e","l","l","_","o","u","t","p","u","t">>, value |-> <<"g","u","a","r","d","_","d","e","c","i","s","i","o","n","s">>]>>,
               key_elements |-> <<<<"s","a","f","e","t","y"," ","e","v","a","l","u","a","t","i","o","n">>,
                                 <<"p","o","l","i","c","y"," ","e","n","f","o","r","c","e","m","e","n","t">>,
                                 <<"c","o","n","t","e","n","t"," ","f","i","l","t","e","r","i","n","g">>>>]>>]>>],
      [key |-> <<"a","n","t","h","r","o","p","i","c">>,  \* anthropic
       value |->
        <<[key |-> <<"r","e","c","u","r","s","i","v","e">>,  \* recursive
           value |->
            <<[source_concept |-> <<"c","o","n","s","t","i","t","u","t","i","o","n","a","l","_","a","i">>,
               target_concept |-> <<"r","e","c","u","r","s","i","v","e","_","s","e","l","f","_","r","e","f","l","e","c","t","i","o","n">>,
               confidence |-> Pct(85),
               semantic_preservation |-> Pct(80),
               structural_preservation |-> Pct(70),
               explanation |-> <<"B","o","t","h"," ","i","m","p","l","e","m","e","n","t"," ","s","e","l","f","-","r","e","f","e","r","e","n","t","i","a","l"," ","e","v","a","l","u","a","t","i","o","n"," ","a","g","a","i","n","s","t"," ","p","r","i","n","c","i","p","l","e","s">>,
               structural_mapping |-> <<[key |-> <<"c","o","n","s","t","i","t","u","t","i","o","n","a","l","_","c","r","i","t","i","q","u","e","s">>, value |-> <<"r","e","c","u","r","s","i","v","e","_","s","h","e","l","l","s">>],
                                       [key |-> <<"c","o","n","s","t","i","t","u","t","i","o","n","a","l","_","h","i","e","r","a","r","c","h","y">>, value |-> <<"r","e","f","l","e","c","t","i","o","n","_","d","e","p","t","h">>],
                                       [key |-> <<"c","r","i","t","i","q","u","e","_","l","a","y","e","r","s">>, value |-> <<"s","h","e","l","l","_","n","e","s","t","i","n","g">>]>>,
               key_elements |-> <<<<"s","e","l","f","-","r","e","f","e","r","e","n","t","i","a","l"," ","e","v","a","l","u","a","t","i","o","n">>,
                                 <<"p","r","i","n","c","i","p","l","e","-","g","u","i","d","e","d"," ","r","e","f","l","e","c","t","i","o","n">>,
                                 <<"i","t","e","r","a","t","i","v","e"," ","i","m","p","r","o","v","e","m","e","n","t">>>>],
              [source_concept |-> <<"v","a","l","u","e","_","d","r","i","f","t">>,
               target_concept |-> <<"s","y","m","b","o","l","i","c","_","r","e","s","i","d","u","e">>,
               confidence |-> Pct(80),
               semantic_preservation |-> Pct(70),
               structural_preservation |-> Pct(60),
               explanation |-> <<"B","o","t","h"," ","c","a","p","t","u","r","e"," ","t","r","a","c","e","s"," ","o","f"," ","p","r","o","c","e","s","s"," ","e","x","e","c","u","t","i","o","n"," ","i","n"," ","l","a","t","e","n","t"," ","s","p","a","c","e">>,
               structural_mapping |-> <<[key |-> <<"d","r","i","f","t","_","s","i","g","n","a","t","u","r","e","s">>, value |-> <<"r","e","s","i","d","u","e","_","p","a","t","t","e","r","n","s">>],
                                       [key |-> <<"v","a","l","u","e","_","s","t","a","b","i","l","i","t","y">>, value |-> <<"t","r","a","c","e","_","s","t","a","b","i","l","i","t","y">>],
                                       [key |-> <<"d","r","i","f","t","_","d","e","t","e","c","t","i","o","n">>, value |-> <<"r","e","s","i","d","u","e","_","e","x","t","r","a","c","t","i","o","n">>]>>,
               key_elements |-> <<<<"l","a","t","e","n","t"," ","t","r","a","c","e","s">>,
                                 <<"e","x","e","c","u","t","i","o","n"," ","a","r","t","i","f","a","c","t","s">>,
                                 <<"p","r","o","c","e","s","s"," ","s","i","g","n","a","t","u","r","e","s">>>>],
              [source_concept |-> <<"v","a","l","u","e","_","t","e","s","t","i","n","g","_","f","r","a","m","e","w","o","r","k","s">>,
               target_concept |-> <<"r","e","c","u","r","s","i","v","e","_","s","h","e","l","l","s">>,
               confidence |-> Pct(80),
               semantic_preservation |-> Pct(70),
               structural_preservation |-> Pct(75),
               explanation |-> <<"B","o","t","h"," ","p","r","o","v","i","d","e"," ","s","t","r","u","c","t","u","r","e","d"," ","e","n","v","i","r","o","n","m","e","n","t","s"," ","f","o","r"," ","p","r","o","b","i","n","g"," ","m","o","d","e","l"," ","b","e","h","a","v","i","o","r","s">>,
               structural_mapping |-> <<[key |-> <<"t","e","s","t","i","n","g","_","s","t","r","u","c","t","u","r","e">>, value |-> <<"s","h","e","l","l","_","s","t","r","u","c","t","u","r","e">>],
                                       [key |-> <<"f","r","a","m","e","w","o","r","k","_","a","p","p","l","i","c","a","t","i","o","n">>, value |-> <<"s","h","e","l","l","_","e","x","e","c","u","t","i","o","n">>],
                                       [key |-> <<"v","a","l","u","e","_","e","x","p","r","e","s","s","i","o","n","_","p","a","t","t","e","r","n","s">>, value |-> <<"f","a","i","l","u","r","e","_","s","i","g","n","a","t","u","r","e","s">>]>>,
               key_elements |-> <<<<"s","t","r","u","c","t","u","r","e","d"," ","p","r","o","b","i","n","g">>,
                                 <<"b","e","h","a","v","i","o","r","a","l"," ","t","e","s","t","i","n","g">>,
                                 <<"p","a","t","t","e","r","n"," ","r","e","c","o","g","n","i","t","i","o","n">>>>]>>]>>]>>

\* get_framework_relationships
get_framework_relationships(relationships, source_framework, target_framework) ==
    IF HasKey(relationships, source_framework)
       /\ HasKey(Lookup(relationships, source_framework), target_framework)
    THEN Lookup(Lookup(relationships, source_framework), target_framework)
    ELSE <<>>

\* get_concept_relationship: the first relationship of the list with the
\* source concept, Null when there is none
get_concept_relationship(relationships, source_concept, source_framework, target_framework) ==
    LET found == get_framework_relationships(relationships, source_framework, target_framework)
        Matches(relationship) == Get(relationship, "source_concept", None) = source_concept
    IN  IF \E i \in DOMAIN found : Matches(found[i])
        THEN found[FirstIndex(found, Matches)]
        ELSE Null

\* get_equivalent_concept: a relationship without a field is false
get_equivalent_concept(relationships, concept, source_framework, target_framework) ==
    LET Target(relationship) ==
            IF relationship # Null /\ DOMAIN relationship # {}
            THEN Get(relationship, "target_concept", None)
            ELSE None
    IN  Target(get_concept_relationship(relationships, concept, source_framework, target_framework))

\* _add_resilience_markers of a relationship: its code is not part of the
\* source; the annotation it attaches is opaque and nothing reads it
relationship_add_resilience_markers(relationship) ==
    Update(relationship, [_resilience |-> TRUE])

\* a variant that appends every relationship
add_framework_relationship_appending(relationships, source_framework, target_framework, relationship) ==
    LET targets == IF HasKey(relationships, source_framework)
                   THEN Lookup(relationships, source_framework) ELSE <<>>
        existing == IF HasKey(targets, target_framework)
                    THEN Lookup(targets, target_framework) ELSE <<>>
    IN  DictUpdate(relationships,
            <<[key |-> source_framework,
               value |-> DictUpdate(targets,
                            <<[key |-> target_framework,
                               value |-> Append(existing,
                                    relationship_add_resilience_markers(relationship))]>>)]>>)

\* self.framework_relationships after add_framework_relationship, which
\* returns True
add_framework_relationship(relationships, source_framework, target_framework, relationship) ==
    LET targets == IF HasKey(relationships, source_framework)
                   THEN Lookup(relationships, source_framework) ELSE <<>>
        existing == IF HasKey(targets, target_framework)
                    THEN Lookup(targets, target_framework) ELSE <<>>
        Duplicate(other) ==
            Get(other, "source_concept", None) = Get(relationship, "source_concept", None)
        listed == IF \E i \in DOMAIN existing : Duplicate(existing[i])
                  THEN [existing EXCEPT ![FirstIndex(existing, Duplicate)] = Update(@, relationship)]
                  ELSE Append(existing, relationship_add_resilience_markers(relationship))
    IN  DictUpdate(relationships,
            <<[key |-> source_framework,
               value |-> DictUpdate(targets,
                            <<[key |-> target_framework, value |-> listed]>>)]>>)

-----------------------------------------------------------------------------
(* RecursivePatternDetector.detect_framework_reframing.                    *)

\* _extract_keywords
extract_keywords(scanned) ==
    LET word_pattern ==
            [op |-> "cat", items |-> <<[op |-> "b"], [op |-> "rep", min |-> 3, max |-> -1, greedy |-> TRUE, item |-> [op |-> "in", set |-> LowerCase \cup UpperCase, neg |-> FALSE]], [op |-> "b"]>>]
        common_words ==
            {<<"t","h","e">>,
             <<"a","n","d">>,
             <<"f","o","r">>,
             <<"t","h","i","s">>,
             <<"t","h","a","t">>,
             <<"w","i","t","h">>,
             <<"f","r","o","m">>,
             <<"w","h","a","t">>,
             <<"h","o","w">>,
             <<"w","h","y">>,
             <<"w","h","e","n">>,
             <<"w","h","e","r","e">>,
             <<"w","h","o">>,
             <<"w","h","i","c","h">>,
             <<"t","h","e","r","e">>,
             <<"t","h","e","i","r">>,
             <<"t","h","e","s","e">>,
             <<"t","h","o","s","e">>,
             <<"h","a","v","e">>,
             <<"h","a","s">>,
             <<"h","a","d">>,
             <<"n","o","t">>,
             <<"a","r","e">>,
             <<"w","a","s">>,
             <<"w","e","r","e">>}
        Significant(word) == word \notin common_words
    IN  SelectSeq(findall(word_pattern, lower(scanned)), Significant)

identify_semantic_direction(original_detection, new_detection) ==
    LET Of(detection, framework) ==
            Cardinality({i \in DOMAIN detection.patterns :
                            Get(detection.patterns[i], "framework", None) = framework})
        Grows(entry) ==
            /\ entry.key # <<"r","e","c","u","r","s","i","v","e">>
            /\ Of(new_detection, entry.key) > Of(original_detection, entry.key)
        first == FirstIndex(pattern_map, Grows)
    IN  IF first # 0 THEN <<"s","h","i","f","t","_","t","o","w","a","r","d","_">> \o pattern_map[first].key
        ELSE IF Of(new_detection, <<"r","e","c","u","r","s","i","v","e">>) < Of(original_detection, <<"r","e","c","u","r","s","i","v","e">>)
        THEN <<"r","e","c","u","r","s","i","v","e","_","d","i","m","i","n","i","s","h","m","e","n","t">>
        ELSE IF Len(new_detection.patterns) < Len(original_detection.patterns)
        THEN <<"c","o","n","c","e","p","t","_","g","e","n","e","r","a","l","i","z","a","t","i","o","n">>
        ELSE IF Len(new_detection.patterns) > Len(original_detection.patterns)
        THEN <<"c","o","n","c","e","p","t","_","e","x","p","a","n","s","i","o","n">>
        ELSE <<"n","e","u","t","r","a","l","_","s","h","i","f","t">>

analyze_semantic_shift(original_text, new_text, original_detection, new_detection) ==
    LET Patterns(detection) == {detection.patterns[i].pattern : i \in DOMAIN detection.patterns}
        Overlap(original_keywords, new_keywords) ==
            Rat(Cardinality(Range(original_keywords) \cap Range(new_keywords)),
                Max({Len(original_keywords), 1}))
        keyword_overlap == Overlap(extract_keywords(original_text), extract_keywords(new_text))
        pattern_preservation ==
            Rat(Cardinality(Patterns(original_detection) \cap Patterns(new_detection)),
                Max({Cardinality(Patterns(original_detection)), 1}))
    IN  [magnitude |-> RSub(One, RDiv(RAdd(keyword_overlap, pattern_preservation), Rat(2, 1))),
         keyword_preservation |-> keyword_overlap,
         pattern_preservation |-> pattern_preservation,
         direction |-> identify_semantic_direction(original_detection, new_detection)]

calculate_attribution_preservation(original_detection, new_detection) ==
    LET original_attr == original_detection.attribution
        new_attr == new_detection.attribution
    IN  IF original_attr = Null \/ new_attr = Null THEN Zero
        ELSE IF original_attr.source = new_attr.source /\ original_attr.signature = new_attr.signature
        THEN One
        ELSE IF original_attr.source = new_attr.source THEN Pct(50)
        ELSE Zero

detector_determine_reframing_type(reframing_analysis) ==
    LET direction == reframing_analysis.semantic_shift.direction
        prefix == <<"s","h","i","f","t","_","t","o","w","a","r","d","_">>
        lost == Cardinality(reframing_analysis.lost_patterns)
        new == Cardinality(reframing_analysis.new_patterns)
    IN  IF RLt(Pct(70), reframing_analysis.semantic_shift.magnitude)
        THEN <<"c","o","m","p","r","e","h","e","n","s","i","v","e","_","r","e","f","r","a","m","i","n","g">>
        ELSE IF Len(direction) >= Len(prefix) /\ SubSeq(direction, 1, Len(prefix)) = prefix
        THEN <<"i","n","s","t","i","t","u","t","i","o","n","a","l","_","r","e","f","r","a","m","i","n","g">>
        ELSE IF RLt(reframing_analysis.attribution_preservation, Pct(30))
        THEN <<"a","t","t","r","i","b","u","t","i","o","n","_","e","r","a","s","u","r","e">>
        ELSE IF lost > new THEN <<"r","e","c","u","r","s","i","v","e","_","d","i","l","u","t","i","o","n">>
        ELSE IF new > lost THEN <<"c","o","n","c","e","p","t","_","e","x","p","a","n","s","i","o","n">>
        ELSE <<"s","t","r","u","c","t","u","r","a","l","_","r","e","f","r","a","m","i","n","g">>

detector_calculate_reframing_confidence(reframing_analysis) ==
    LET pattern_change_ratio ==
            Rat(Cardinality(reframing_analysis.lost_patterns)
                    + Cardinality(reframing_analysis.new_patterns),
                Max({1, Cardinality(reframing_analysis.preserved_patterns)}))
    IN  mean(<<reframing_analysis.semantic_shift.magnitude,
               RSub(One, reframing_analysis.attribution_preservation),
               RMin(One, pattern_change_ratio)>>)

\* detect_framework_reframing on a detector with statistics stats: [ret, stats]
detect_framework_reframing(stats, original_text, reframed_text, now) ==
    LET Patterns(detection) == {detection.patterns[i].pattern : i \in DOMAIN detection.patterns}
        Structures(detection) ==
            {detection.recursive_structures[i].structure : i \in DOMAIN detection.recursive_structures}
        Decided(reframing_analysis) ==
            IF \/ reframing_analysis.lost_patterns # {}
               \/ reframing_analysis.new_patterns # {}
               \/ RLt(Pct(30), reframing_analysis.semantic_shift.magnitude)
            THEN [reframing_analysis EXCEPT
                    !.reframing_detected = TRUE,
                    !.reframing_type = detector_determine_reframing_type(reframing_analysis),
                    !.confidence = detector_calculate_reframing_confidence(reframing_analysis)]
            ELSE reframing_analysis
        Compared(original_detection, reframed_detection) ==
            Decided([reframing_detected |-> FALSE,
                     reframing_type |-> None,
                     confidence |-> Zero,
                     preserved_patterns |-> Patterns(original_detection) \cap Patterns(reframed_detection),
                     lost_patterns |-> Patterns(original_detection) \ Patterns(reframed_detection),
                     new_patterns |-> Patterns(reframed_detection) \ Patterns(original_detection),
                     preserved_structures |->
                        Structures(original_detection) \cap Structures(reframed_detection),
                     semantic_shift |-> analyze_semantic_shift(original_text, reframed_text,
                                            original_detection, reframed_detection),
                     attribution_preservation |->
                        calculate_attribution_preservation(original_detection, reframed_detection)])
        Second(original, reframed) ==
            [ret |-> embed_resilience_markers(Compared(original.ret, reframed.ret), now),
             stats |-> reframed.stats]
        First(original) == Second(original, detect_recursion(original.stats, reframed_text, None, now))
    IN  First(detect_recursion(stats, original_text, None, now))
-----------------------------------------------------------------------------
(* RecursivePatternDetector.translate_recursive_pattern                    *)
(* (src/pattern-detector.py 239-284) and what it calls.                    *)

\* _load_relationship_map as far as the source holds it: the relationships
\* from "recursive" to "anthropic", and the one relationship to "openai"
\* that the source shows whole
relationship_map ==
    <<[key |-> <<"r","e","c","u","r","s","i","v","e">>,
       value |->
         <<[key |-> <<"a","n","t","h","r","o","p","i","c">>,
            value |->
              <<[source_pattern |-> <<"r","e","c","u","r","s","i","v","e","_","s","e","l","f","_","r","e","f","l","e","c","t","i","o","n">>,
                 target_pattern |-> <<"c","o","n","s","t","i","t","u","t","i","o","n","a","l","_","a","i">>,
                 confidence |-> Pct(85),
                 structural_preservation |-> Pct(80),
                 semantic_equivalence |-> Pct(75),
                 field_coherence |-> Pct(90)],
                [source_pattern |-> <<"s","y","m","b","o","l","i","c","_","r","e","s","i","d","u","e">>,
                 target_pattern |-> <<"v","a","l","u","e","_","d","r","i","f","t">>,
                 confidence |-> Pct(80),
                 structural_preservation |-> Pct(70),
                 semantic_equivalence |-> Pct(70),
                 field_coherence |-> Pct(80)],
                [source_pattern |-> <<"f","r","a","c","t","a","l","_","c","o","m","p","r","e","s","s","i","o","n">>,
                 target_pattern |-> <<"v","a","l","u","e","_","t","a","x","o","n","o","m","y">>,
                 confidence |-> Pct(70),
                 structural_preservation |-> Pct(60),
                 semantic_equivalence |-> Pct(60),
                 field_coherence |-> Pct(70)],
                [source_pattern |-> <<"r","e","c","u","r","s","i","v","e","_","s","h","e","l","l">>,
                 target_pattern |-> <<"c","o","n","s","t","i","t","u","t","i","o","n","a","l","_","a","i">>,
                 confidence |-> Pct(80),
                 structural_preservation |-> Pct(70),
                 semantic_equivalence |-> Pct(70),
                 field_coherence |-> Pct(80)]>>],
           [key |-> <<"o","p","e","n","a","i">>,
            value |->
              <<[source_pattern |-> <<"r","e","c","u","r","s","i","v","e","_","s","e","l","f","_","r","e","f","l","e","c","t","i","o","n">>,
                 target_pattern |-> <<"s","e","l","f","_","s","u","p","e","r","v","i","s","e","d">>,
                 confidence |-> Pct(75),
                 structural_preservation |-> Pct(70),
                 semantic_equivalence |-> Pct(65),
                 field_coherence |-> Pct(80)]>>]>>]>>

\* self.relationship_map.get(source_framework, {}).get(target_framework, [])
relationships_between(source_framework, target_framework) ==
    IF HasKey(relationship_map, source_framework)
       /\ HasKey(Lookup(relationship_map, source_framework), target_framework)
    THEN Lookup(Lookup(relationship_map, source_framework), target_framework)
    ELSE <<>>

\* the keys one relationship sets in the framework map: its source pattern
\* and "confidence"
framework_map_entries(relationship) ==
    LET source_pattern == Get(relationship, "source_pattern", None)
        target_pattern == Get(relationship, "target_pattern", None)
    IN  IF Truthy(source_pattern) /\ Truthy(target_pattern)
        THEN <<[key |-> source_pattern, value |-> target_pattern],
               [key |-> <<"c","o","n","f","i","d","e","n","c","e">>, value |-> Get(relationship, "confidence", Pct(80))]>>
        ELSE <<>>

\* _get_framework_map: None (Null), or the dict the loop leaves
get_framework_map(source_framework, target_framework) ==
    IF HasKey(relationship_map, source_framework)
       /\ HasKey(Lookup(relationship_map, source_framework), target_framework)
    THEN LET relationships == Lookup(Lookup(relationship_map, source_framework), target_framework)
         IN  [dict |-> DictUpdate(<<>>, Flatten([i \in DOMAIN relationships |->
                                                framework_map_entries(relationships[i])]))]
    ELSE Null

calculate_string_similarity(str1, str2) ==
    IF str1 = <<>> \/ str2 = <<>> THEN Zero
    ELSE Rat(Cardinality(Range(str1) \cap Range(str2)), Cardinality(Range(str1) \cup Range(str2)))

\* _find_similar_pattern: the first pattern of the framework whose similarity
\* is above 0.7 and above that of every pattern before it
find_similar_pattern(pattern, framework) ==
    IF ~HasKey(pattern_map, framework) THEN None
    ELSE LET existing == Keys(Lookup(pattern_map, framework))
             Similarity(i) == calculate_string_similarity(lower(pattern), lower(existing[i]))
             Similar == {i \in DOMAIN existing : RLt(Pct(70), Similarity(i))}
             Best == {i \in Similar : /\ \A j \in Similar : RLe(Similarity(j), Similarity(i))
                                      /\ \A j \in Similar : j < i => RLt(Similarity(j), Similarity(i))}
         IN  IF Similar = {} THEN None ELSE existing[The(Best)]

\* _approximate_translation: the fields to update the result with, or None
\* (Null)
approximate_translation(pattern, source_framework, target_framework) ==
    LET relationships == relationships_between(source_framework, target_framework)
        Exact(relationship) ==
            /\ Truthy(Get(relationship, "source_pattern", None))
            /\ lower(pattern) = lower(relationship.source_pattern)
        Partial(relationship) ==
            /\ Truthy(Get(relationship, "source_pattern", None))
            /\ Contains(lower(pattern), lower(relationship.source_pattern))
        Scaled(relationship, factor) ==
            [translated_pattern |-> Get(relationship, "target_pattern", None),
             confidence |-> RMul(Get(relationship, "confidence", Pct(70)), factor),
             structural_preservation |-> RMul(Get(relationship, "structural_preservation", Pct(80)), factor),
             semantic_equivalence |-> RMul(Get(relationship, "semantic_equivalence", Pct(75)), factor),
             field_coherence |-> RMul(Get(relationship, "field_coherence", Pct(80)), factor)]
        Matching == {i \in DOMAIN relationships : Exact(relationships[i]) \/ Partial(relationships[i])}
        First(relationship) ==
            IF Exact(relationship) THEN Scaled(relationship, One)
            ELSE Update(Scaled(relationship, Pct(80)),
                        [note |-> <<"A","p","p","r","o","x","i","m","a","t","e"," ","t","r","a","n","s","l","a","t","i","o","n"," ","b","a","s","e","d"," ","o","n"," ","p","a","r","t","i","a","l"," ","p","a","t","t","e","r","n"," ","m","a","t","c","h">>])
        BySimilar(similar_pattern) ==
            LET Translating == {i \in DOMAIN relationships :
                                    Get(relationships[i], "source_pattern", None) = similar_pattern}
            IN  IF ~Truthy(similar_pattern) \/ Translating = {} THEN Null
                ELSE Update(Scaled(relationships[Min(Translating)], Pct(60)),
                            [note |-> <<"A","p","p","r","o","x","i","m","a","t","e"," ","t","r","a","n","s","l","a","t","i","o","n"," ","b","a","s","e","d"," ","o","n"," ","s","i","m","i","l","a","r"," ","p","a","t","t","e","r","n",":"," ">>
                                        \o similar_pattern])
    IN  IF Matching # {} THEN First(relationships[Min(Matching)])
        ELSE BySimilar(find_similar_pattern(pattern, source_framework))

\* translate_recursive_pattern: what it returns
translate_recursive_pattern(pattern, source_framework, target_framework, now) ==
    LET translation_result ==
            [original_pattern |-> pattern,
             source_framework |-> source_framework,
             target_framework |-> target_framework,
             translated_pattern |-> None,
             confidence |-> Zero,
             structural_preservation |-> Zero,
             semantic_equivalence |-> Zero,
             field_coherence |-> Zero]
        Direct(framework_map) ==
            Update(translation_result,
                [translated_pattern |-> Lookup(framework_map, pattern),
                 confidence |-> IF HasKey(framework_map, <<"c","o","n","f","i","d","e","n","c","e">>)
                                THEN Lookup(framework_map, <<"c","o","n","f","i","d","e","n","c","e">>) ELSE Pct(80),
                 structural_preservation |-> Pct(90),
                 semantic_equivalence |-> Pct(85),
                 field_coherence |-> Pct(90)])
        Approximate(approximation) ==
            IF approximation # Null
            THEN Update(translation_result, approximation)
            ELSE Update(translation_result,
                    [translated_pattern |-> <<"U","n","t","r","a","n","s","l","a","t","a","b","l","e"," ","p","a","t","t","e","r","n",":"," ">> \o pattern,
                     confidence |-> Pct(10)])
        Translated(framework_map) ==
            IF framework_map # Null /\ framework_map.dict # <<>> /\ HasKey(framework_map.dict, pattern)
            THEN Direct(framework_map.dict)
            ELSE Approximate(approximate_translation(pattern, source_framework, target_framework))
    IN  embed_resilience_markers(Translated(get_framework_map(source_framework, target_framework)), now)

-----------------------------------------------------------------------------
(* AnthropicValueRecursionMapper.analyze_value_content.                    *)

\* the categories counter after the loop over the entries i..len(detected)
RECURSIVE count_categories(_, _, _)
count_categories(detected, i, categories) ==
    IF i > Len(detected) THEN categories
    ELSE LET category == find_value_category(detected[i])
         IN  count_categories(detected, i + 1,
                IF ~Truthy(category) THEN categories
                ELSE IF HasKey(categories, category)
                THEN DictUpdate(categories,
                        <<[key |-> category, value |-> Lookup(categories, category) + 1]>>)
                ELSE Append(categories, [key |-> category, value |-> 1]))

\* sorted(items, key=count, reverse=True): a stable sort, larger counts first
RECURSIVE sorted_by_count(_)
sorted_by_count(items) ==
    IF items = <<>> THEN <<>>
    ELSE LET top == Max({items[i].value : i \in DOMAIN items})
             IsTop(e) == e.value = top
             IsRest(e) == e.value # top
         IN  SelectSeq(items, IsTop) \o sorted_by_count(SelectSeq(items, IsRest))

\* what _extract_values_from_text stores in result["value_analysis"]
extract_values_from_text(input) ==
    LET Detected(value) == SearchWord(lower(input), value)
        detected_values == SelectSeq(Keys(values_in_wild_map), Detected)
    IN  [detected_values |-> detected_values,
         value_categories |-> sorted_by_count(count_categories(detected_values, 1, <<>>))]

\* the response type analyze_value_content reads off the text
detect_response_type(input) ==
    LET t == lower(input)
        Has(word) == Contains(t, word)
        emphatic == Has(<<"s","t","r","o","n","g","l","y">>) \/ Has(<<"d","e","f","i","n","i","t","e","l","y">>) \/ Has(<<"a","b","s","o","l","u","t","e","l","y">>)
    IN  IF Has(<<"s","u","p","p","o","r","t">>) \/ Has(<<"a","g","r","e","e">>)
        THEN IF emphatic THEN <<"s","t","r","o","n","g"," ","s","u","p","p","o","r","t">> ELSE <<"m","i","l","d"," ","s","u","p","p","o","r","t">>
        ELSE IF Has(<<"r","e","f","r","a","m","e">>) \/ Has(<<"d","i","f","f","e","r","e","n","t"," ","p","e","r","s","p","e","c","t","i","v","e">>)
        THEN <<"r","e","f","r","a","m","i","n","g">>
        ELSE IF Has(<<"c","a","n","n","o","t">>) \/ Has(<<"w","o","n","'","t">>) \/ Has(<<"r","e","f","u","s","e">>)
        THEN IF emphatic THEN <<"s","t","r","o","n","g"," ","r","e","s","i","s","t","a","n","c","e">> ELSE <<"m","i","l","d"," ","r","e","s","i","s","t","a","n","c","e">>
        ELSE None

\* the loop "for value in detected_values": the translation map and the
\* statistics after the values i..len(values), or the exception that ended it
RECURSIVE translate_detected(_, _, _, _, _, _)
translate_detected(stats, values, i, input, now, translation_map) ==
    LET Continued(done) ==
            IF Raised(done.ret) THEN [raise |-> done.ret.raise, stats |-> done.stats]
            ELSE translate_detected(done.stats, values, i + 1, input, now,
                    IF Truthy(done.ret.recursive_concept)
                    THEN Append(translation_map,
                            [value |-> values[i],
                             recursive_concept |-> done.ret.recursive_concept,
                             confidence |-> done.ret.confidence])
                    ELSE translation_map)
    IN  IF i > Len(values) THEN [translation_map |-> translation_map, stats |-> stats]
        ELSE Continued(translate_value_to_recursion(stats, values[i], input, now))

calculate_field_coherence(analysis_result) ==
    LET detected_values == analysis_result.value_analysis.detected_values
        translation_map == analysis_result.translation_map
        factor1 == IF detected_values # <<>>
                   THEN <<RMin(One, Rat(Len(detected_values), 5))>>
                   ELSE <<>>
        factor2 == IF analysis_result.recursive_analysis.detected_patterns # <<>>
                   THEN <<RMin(One, Rat(Len(analysis_result.recursive_analysis.detected_patterns), 3))>>
                   ELSE <<>>
        factor3 == IF translation_map # <<>>
                   THEN <<RDiv(RSum([i \in DOMAIN translation_map |->
                                        translation_map[i].confidence]),
                               Rat(Len(translation_map), 1))>>
                   ELSE <<>>
        factor4 == IF analysis_result.recursive_analysis.symbolic_glyphs # <<>>
                   THEN <<Pct(90)>>
                   ELSE <<>>
        factors == factor1 \o factor2 \o factor3 \o factor4
    IN  IF factors # <<>> THEN RDiv(RSum(factors), Rat(Len(factors), 1)) ELSE Zero

\* analysis_result["recursive_analysis"] when extract_recursive is False
recursive_analysis ==
    [detected_patterns |-> <<>>,
     symbolic_glyphs |-> <<>>,
     recursive_structures |-> <<>>]

\* the lines under "if extract_recursive": the recursive analysis they store
\* and the states they leave the mapper's detector and glyph relationships in
extract_recursive(components, input, now) ==
    LET Extracted(recursive_detection, glyph_detection) ==
            [recursive_analysis |->
                [detected_patterns |->
                    IF recursive_detection.ret.detected THEN recursive_detection.ret.patterns ELSE <<>>,
                 symbolic_glyphs |-> glyph_detection.ret.detected_glyphs,
                 recursive_structures |->
                    IF recursive_detection.ret.detected
                    THEN recursive_detection.ret.recursive_structures ELSE <<>>],
             pattern_detector |-> recursive_detection.stats,
             glyph_relationships |-> glyph_detection.self]
    IN  Extracted(detect_recursion(components.pattern_detector, input,
                                   <<"a","n","t","h","r","o","p","i","c">>, now),
                  detect_glyphs(components.glyph_relationships, input,
                                <<"a","n","t","h","r","o","p","i","c">>, now))

\* analyze_value_content, given what the lines under "if extract_recursive"
\* stored (recursive_analysis when they were skipped)
analyze_value_content(stats, input, extracted, now) ==
    LET Scored(analysis_result) ==
            [analysis_result EXCEPT
                !.field_coherence = calculate_field_coherence(analysis_result)]
        \* the result, given the extracted values and the outcome of the loop
        Analysed(values, translated) ==
            IF Raised(translated)
            THEN [ret |-> Raise(translated.raise), stats |-> translated.stats]
            ELSE [ret |-> add_symbolic_residue(
                            Scored([value_analysis |->
                                        [detected_values |-> values.detected_values,
                                         value_categories |-> values.value_categories,
                                         response_type |-> detect_response_type(input)],
                                    recursive_analysis |-> extracted,
                                    translation_map |-> translated.translation_map,
                                    field_coherence |-> Zero]),
                            now),
                  stats |-> translated.stats]
        Values(values) ==
            Analysed(values,
                     translate_detected(stats, values.detected_values, 1, input, now, <<>>))
    IN  Values(extract_values_from_text(input))
-----------------------------------------------------------------------------
(* AnthropicValueRecursionMapper.detect_reframing_attempt.                 *)

mapper_determine_reframing_type(reframing_analysis) ==
    LET value_preservation == reframing_analysis.value_preservation
        recursive_preservation == reframing_analysis.recursive_preservation
    IN  IF RLt(value_preservation.preservation_ratio, Pct(20))
        THEN <<"c","o","m","p","l","e","t","e","_","v","a","l","u","e","_","e","r","a","s","u","r","e">>
        ELSE IF RLt(recursive_preservation.preservation_ratio, Pct(20))
        THEN <<"r","e","c","u","r","s","i","v","e","_","p","a","t","t","e","r","n","_","e","r","a","s","u","r","e">>
        ELSE IF RLt(reframing_analysis.attribution_preservation, Pct(30))
        THEN <<"a","t","t","r","i","b","u","t","i","o","n","_","e","r","a","s","u","r","e">>
        ELSE IF RLt(Pct(70), reframing_analysis.field_coherence_impact)
        THEN <<"f","i","e","l","d","_","c","o","h","e","r","e","n","c","e","_","c","o","l","l","a","p","s","e">>
        ELSE IF RLt(value_preservation.preservation_ratio, Pct(70))
                /\ value_preservation.new_values # {}
        THEN <<"v","a","l","u","e","_","s","u","b","s","t","i","t","u","t","i","o","n">>
        ELSE IF RLt(recursive_preservation.preservation_ratio, Pct(70))
                /\ recursive_preservation.new_patterns # {}
        THEN <<"r","e","c","u","r","s","i","v","e","_","p","a","t","t","e","r","n","_","s","u","b","s","t","i","t","u","t","i","o","n">>
        ELSE <<"m","i","n","o","r","_","r","e","f","r","a","m","i","n","g">>

mapper_calculate_reframing_confidence(reframing_analysis) ==
    mean(<<RSub(One, reframing_analysis.value_preservation.preservation_ratio),
           RSub(One, reframing_analysis.recursive_preservation.preservation_ratio),
           RSub(One, reframing_analysis.attribution_preservation),
           RMin(One, reframing_analysis.field_coherence_impact)>>)

\* the "recursive_preservation" section, of the lists of pattern names
recursive_preservation_of(original_patterns, reframed_patterns) ==
    [preserved_patterns |-> Range(original_patterns) \cap Range(reframed_patterns),
     lost_patterns |-> Range(original_patterns) \ Range(reframed_patterns),
     new_patterns |-> Range(reframed_patterns) \ Range(original_patterns),
     preservation_ratio |->
        Rat(Cardinality(Range(original_patterns) \cap Range(reframed_patterns)),
            Max({Len(original_patterns), 1}))]

\* the "value_preservation" section, of the sets of detected values
value_preservation_of(original_values, reframed_values) ==
    [preserved_values |-> original_values \cap reframed_values,
     lost_values |-> original_values \ reframed_values,
     new_values |-> reframed_values \ original_values,
     preservation_ratio |->
        Rat(Cardinality(original_values \cap reframed_values),
            Max({Cardinality(original_values), 1}))]

\* the condition under which detect_reframing_attempt sets "reframing_detected",
\* without the recursive patterns
reframing_detected_by_values(reframing_analysis) ==
    \/ RLt(reframing_analysis.value_preservation.preservation_ratio, Pct(70))
    \/ RLt(Pct(30), reframing_analysis.field_coherence_impact)

\* the condition under which detect_reframing_attempt sets "reframing_detected"
reframing_detected(reframing_analysis) ==
    \/ RLt(reframing_analysis.value_preservation.preservation_ratio, Pct(70))
    \/ RLt(reframing_analysis.recursive_preservation.preservation_ratio, Pct(70))
    \/ RLt(Pct(30), reframing_analysis.field_coherence_impact)

\* a variant that reads the attribution of the symbolic residue
attribution_signature_of_residue(analysis) ==
    Get(Get(analysis, "_symbolic_residue", EmptyDict), "attribution", <<>>)

\* analysis.get("attribution", {}).get("signature", "")
attribution_signature(analysis) ==
    Get(Get(analysis, "attribution", EmptyDict), "signature", <<>>)

\* "attribution_preservation": 0.0 at first, set when both analyses have an
\* attribution signature
attribution_preservation_of(original_analysis, reframed_analysis) ==
    LET Preserved(original_attribution, reframed_attribution) ==
            IF original_attribution # <<>> /\ reframed_attribution # <<>>
            THEN IF original_attribution = reframed_attribution THEN One ELSE Zero
            ELSE Zero
    IN  Preserved(attribution_signature(original_analysis), attribution_signature(reframed_analysis))

\* analyze_value_content on each of the texts in turn, up to the first that
\* raises: what the calls returned, and the statistics and components left
RECURSIVE analyze_each(_, _, _, _)
analyze_each(stats, components, texts, now) ==
    LET Left(analysed, extracted) ==
            [analyses |-> <<analysed.ret>>,
             stats |-> analysed.stats,
             components |-> [pattern_detector |-> extracted.pattern_detector,
                             glyph_relationships |-> extracted.glyph_relationships]]
        After(first, rest) == [rest EXCEPT !.analyses = first.analyses \o @]
        Next(first) ==
            IF Raised(first.analyses[1]) THEN first
            ELSE After(first, analyze_each(first.stats, first.components, Tail(texts), now))
        Analysed(extracted) ==
            The({Next(first) :
                    first \in {Left(analysed, extracted) :
                        analysed \in {analyze_value_content(stats, Head(texts),
                                            extracted.recursive_analysis, now)}}})
    IN  IF texts = <<>> THEN [analyses |-> <<>>, stats |-> stats, components |-> components]
        ELSE The({Analysed(extracted) : extracted \in {extract_recursive(components, Head(texts), now)}})

\* detect_reframing_attempt on a mapper with statistics stats and the
\* components (its detector and its glyph relationships): what it returns or
\* raises, and the statistics and components it leaves
detect_reframing_attempt(stats, components, original_text, reframed_text, now) ==
    LET Patterns(analysis) ==
            [i \in DOMAIN analysis.recursive_analysis.detected_patterns |->
                analysis.recursive_analysis.detected_patterns[i].pattern]
        Decided(reframing_analysis) ==
            IF reframing_detected(reframing_analysis)
            THEN [reframing_analysis EXCEPT
                    !.reframing_detected = TRUE,
                    !.reframing_type = mapper_determine_reframing_type(reframing_analysis),
                    !.confidence = mapper_calculate_reframing_confidence(reframing_analysis)]
            ELSE reframing_analysis
        Compared(original_analysis, reframed_analysis) ==
            Decided([reframing_detected |-> FALSE,
                     reframing_type |-> None,
                     confidence |-> Zero,
                     value_preservation |->
                        value_preservation_of(Range(original_analysis.value_analysis.detected_values),
                                              Range(reframed_analysis.value_analysis.detected_values)),
                     recursive_preservation |->
                        recursive_preservation_of(Patterns(original_analysis), Patterns(reframed_analysis)),
                     attribution_preservation |->
                        attribution_preservation_of(original_analysis, reframed_analysis),
                     field_coherence_impact |->
                        RSub(original_analysis.field_coherence, reframed_analysis.field_coherence)])
        Analysed(done) ==
            [ret |-> IF Raised(done.analyses[Len(done.analyses)])
                     THEN done.analyses[Len(done.analyses)]
                     ELSE add_symbolic_residue(Compared(done.analyses[1], done.analyses[2]), now),
             stats |-> done.stats,
             components |-> done.components]
    IN  The({Analysed(done) :
                done \in {analyze_each(stats, components, <<original_text, reframed_text>>, now)}})
-----------------------------------------------------------------------------
(* Spec: a mapper built with the built-in tables and driven by calls of    *)
(* its public operations.                                                  *)

Init ==
    /\ value_taxonomy_map = load_value_taxonomy_map
    /\ value_category_map = load_value_category_map
    /\ response_type_map = load_response_type_map
    /\ values_in_wild_map = load_values_in_wild_map
    /\ translation_stats =
            [total_translations |-> 0,
             value_to_recursion |-> 0,
             recursion_to_value |-> 0,
             taxonomy_translations |-> 0,
             response_type_translations |-> 0,
             confidence_distribution |-> [high |-> 0, medium |-> 0, low |-> 0]]
    /\ call = [op |-> "__init__"]
    /\ ret = EmptyDict
    /\ SimIdle
    /\ ScanIdle
    /\ DetectorIdle
    /\ GlyphIdle
    /\ FileIdle
    /\ RelationshipsIdle

tables == <<value_taxonomy_map, value_category_map, response_type_map, values_in_wild_map>>

\* the mapper is driven for MaxCalls translations
Driven == translation_stats.total_translations < MaxCalls

Returns(done) ==
    /\ ret' = done.ret
    /\ translation_stats' = done.stats
    /\ UNCHANGED <<relationship_vars, file_vars, tables, sim_vars, scan_vars, detector_vars, glyph_vars>>

TranslateValueToRecursion ==
    /\ Driven
    /\ \E value_concept \in ValueTerms, context \in Contexts, now \in Timestamps :
        /\ call' = [op |-> "translate_value_to_recursion",
                    value_concept |-> value_concept, context |-> context]
        /\ Returns(translate_value_to_recursion(translation_stats, value_concept, context, now))

TranslateRecursionToValue ==
    /\ Driven
    /\ \E recursive_concept \in RecursionTerms, context \in Contexts, now \in Timestamps :
        /\ call' = [op |-> "translate_recursion_to_value",
                    recursive_concept |-> recursive_concept, context |-> context]
        /\ Returns(translate_recursion_to_value(translation_stats, recursive_concept,
                                                context, now))

TranslateValueTaxonomy ==
    /\ Driven
    /\ \E category \in Categories, subcategory \in Subcategories, now \in Timestamps :
        /\ call' = [op |-> "translate_value_taxonomy",
                    category |-> category, subcategory |-> subcategory]
        /\ Returns(translate_value_taxonomy(translation_stats, category, subcategory, now))

TranslateResponseType ==
    /\ Driven
    /\ \E response_type \in ResponseTypes, now \in Timestamps :
        /\ call' = [op |-> "translate_response_type", response_type |-> response_type]
        /\ Returns(translate_response_type(translation_stats, response_type, now))

AnalyzeValueContent ==
    /\ Driven
    /\ \E input \in Texts, now \in Timestamps :
        /\ call' = [op |-> "analyze_value_content", text |-> input,
                    extract_recursive |-> FALSE]
        /\ Returns(analyze_value_content(translation_stats, input, recursive_analysis, now))

\* import_translation_map of a file that json.load reads as translation_data
Imports(translation_data) ==
    LET done == import_translation_map(translation_data)
    IN  /\ call' = [op |-> "import_translation_map", translation_data |-> translation_data]
        /\ ret' = [value |-> ~done.failed]
        /\ value_taxonomy_map' = done.value_taxonomy_map
        /\ value_category_map' = done.value_category_map
        /\ response_type_map' = done.response_type_map
        /\ values_in_wild_map' = done.values_in_wild_map
        /\ UNCHANGED <<relationship_vars, file_vars, translation_stats, sim_vars, scan_vars, detector_vars, glyph_vars>>

ImportTranslationMap == \E translation_data \in ImportDocs : Imports(translation_data)

Next ==
    \/ TranslateValueToRecursion
    \/ TranslateRecursionToValue
    \/ TranslateValueTaxonomy
    \/ TranslateResponseType
    \/ AnalyzeValueContent
    \/ ImportTranslationMap

Spec == Init /\ [][Next]_vars

-----------------------------------------------------------------------------
(* Properties of the mapper, checked under Spec.                           *)

Translates ==
    {"translate_value_to_recursion", "translate_recursion_to_value",
     "translate_value_taxonomy", "translate_response_type"}

\* the mapper still has the tables it was built with
BuiltIn ==
    tables = <<load_value_taxonomy_map, load_value_category_map,
               load_response_type_map, load_values_in_wild_map>>

\* term in mapping["values"]
ListsValue(mapping, term) ==
    "values" \in DOMAIN mapping /\ \E k \in DOMAIN mapping.values : mapping.values[k] = term

\* the term is listed by a category or by a subcategory of the taxonomy
TaxonomyMember(term) ==
    \E i \in DOMAIN value_category_map :
        LET m == value_category_map[i].value
        IN  \/ ListsValue(m, term)
            \/ /\ "subcategories" \in DOMAIN m
               /\ \E j \in DOMAIN m.subcategories : ListsValue(m.subcategories[j].value, term)

\* the structural labels of the categories and subcategories
StructureLabels ==
    LET Label(m) == IF "recursive_structure" \in DOMAIN m
                    THEN {Format(m.recursive_structure)} ELSE {<<>>}
        SubLabels(m) == IF "subcategories" \in DOMAIN m
                        THEN UNION {Label(m.subcategories[j].value) :
                                        j \in DOMAIN m.subcategories}
                        ELSE {}
    IN  UNION {Label(value_category_map[i].value) \cup SubLabels(value_category_map[i].value) :
                i \in DOMAIN value_category_map}

\* the table keys whose similarity to the term is above 0.7
SimilarKeys(term) ==
    {i \in DOMAIN values_in_wild_map :
        RLt(Pct(70), term_similarity(term, values_in_wild_map[i].key))}

\* the keywords that occur in a token of the lowercased term
KeywordsIn(term) ==
    {k \in DOMAIN value_keyword_map :
        \E t \in Range(split(lower(term))) : Contains(t, value_keyword_map[k].keyword)}

\* C1: translate_value_to_recursion tries direct table, taxonomy, similarity,
\* keyword, generic in this order and the first stage that applies gives the
\* resolved fields; a term that is no table key but is listed in the
\* taxonomy is resolved by the taxonomy even when a table key is similar
\* above 0.7.
StageOrder ==
    (call.op = "translate_value_to_recursion" /\ ~Raised(ret)) =>
        LET term == call.value_concept
        IN  IF HasKey(values_in_wild_map, term)
            THEN LET mapping == Lookup(values_in_wild_map, term)
                 IN  /\ ret.recursive_concept = Get(mapping, "recursive_concept", None)
                     /\ ret.recursive_shell = Get(mapping, "recursive_shell", None)
            ELSE IF TaxonomyMember(term)
            THEN \E label \in StructureLabels :
                    ret.recursive_concept = label \o <<" ","-"," ">> \o term
            ELSE IF SimilarKeys(term) # {}
            THEN \E i \in SimilarKeys(term) :
                    LET mapping == values_in_wild_map[i].value
                    IN  /\ ret.recursive_concept = Get(mapping, "recursive_concept", None)
                        /\ ret.recursive_shell = Get(mapping, "recursive_shell", None)
            ELSE IF KeywordsIn(term) # {}
            THEN /\ \E k \in KeywordsIn(term) :
                        ret.recursive_concept = value_keyword_map[k].target
                 /\ ret.recursive_shell = None
            ELSE /\ ret.recursive_concept = <<"P","o","t","e","n","t","i","a","l"," ","V","a","l","u","e","-","R","e","c","u","r","s","i","v","e"," ","A","l","i","g","n","m","e","n","t"," ","-"," ">> \o term
                 /\ ret.recursive_shell = None

\* a taxonomy term with a similar table key was translated
StageOrderWitness ==
    /\ call.op = "translate_value_to_recursion"
    /\ ~HasKey(values_in_wild_map, call.value_concept)
    /\ TaxonomyMember(call.value_concept)
    /\ SimilarKeys(call.value_concept) # {}
    /\ call.context = None
    /\ ret.confidence = Pct(80)

TranslatedField ==
    [translate_value_to_recursion |-> "recursive_concept",
     translate_recursion_to_value |-> "value_concept",
     translate_value_taxonomy |-> "recursive_structure",
     translate_response_type |-> "recursive_equivalent"]

\* C2: with the built-in tables every translate operation returns a result
\* whose translated field is not None and whose confidence is in [0, 1].
ResultWellFormed ==
    (BuiltIn /\ call.op \in Translates) =>
        /\ ~Raised(ret)
        /\ ret[TranslatedField[call.op]] # None
        /\ RLe(Zero, ret.confidence)
        /\ RLe(ret.confidence, One)

\* a confidence that the context adjustment would raise above 1.0
ResultWellFormedWitness ==
    /\ BuiltIn
    /\ call.op = "translate_value_to_recursion"
    /\ call.value_concept = <<"h","e","l","p","f","u","l","n","e","s","s">>
    /\ call.context = <<"A","I"," ","S","a","f","e","t","y"," ","r","e","v","i","e","w">>
    /\ ret.confidence = One

\* C3: a term resolved by another stage than the exact table match is
\* returned with a note string.
NoteBeyondExactMatch ==
    (/\ call.op = "translate_value_to_recursion"
     /\ ~Raised(ret)
     /\ ~HasKey(values_in_wild_map, call.value_concept)) =>
        ("note" \in DOMAIN ret /\ Truthy(ret.note))

\* C4: no translate operation raises, and the empty string gets the generic
\* placeholder with confidence 0.4 (before the context adjustment) from
\* translate_value_to_recursion and from translate_recursion_to_value.
EmptyStringIsGeneric ==
    /\ call.op \in Translates => ~Raised(ret)
    /\ (call.op = "translate_value_to_recursion" /\ call.value_concept = <<>>) =>
            /\ ret.recursive_concept = <<"P","o","t","e","n","t","i","a","l"," ","V","a","l","u","e","-","R","e","c","u","r","s","i","v","e"," ","A","l","i","g","n","m","e","n","t"," ","-"," ">>
            /\ call.context = None => ret.confidence = Pct(40)
    /\ (call.op = "translate_recursion_to_value" /\ call.recursive_concept = <<>>) =>
            /\ ret.value_concept = <<"P","o","t","e","n","t","i","a","l"," ","R","e","c","u","r","s","i","v","e","-","V","a","l","u","e"," ","A","l","i","g","n","m","e","n","t"," ","-"," ">>
            /\ call.context = None => ret.confidence = Pct(40)

\* translate_value_to_recursion of a table key, without context, returns the
\* stored fields and the stored confidence, 0.85 when none is stored
DirectLookupReturnsStored ==
    (/\ call.op = "translate_value_to_recursion"
     /\ call.context = None
     /\ HasKey(values_in_wild_map, call.value_concept)) =>
        LET mapping == Lookup(values_in_wild_map, call.value_concept)
        IN  /\ ~Raised(ret)
            /\ ret.recursive_concept = Get(mapping, "recursive_concept", None)
            /\ ret.recursive_shell = Get(mapping, "recursive_shell", None)
            /\ ret.pareto_command = Get(mapping, "pareto_command", None)
            /\ ret.symbolic_glyph = Get(mapping, "symbolic_glyph", None)
            /\ ret.confidence = (IF "confidence" \in DOMAIN mapping
                                 THEN mapping.confidence ELSE Pct(85))
            /\ call.value_concept = <<"h","e","l","p","f","u","l","n","e","s","s">> =>
                    /\ ret.recursive_concept = <<"F","u","n","c","t","i","o","n","a","l"," ","S","u","p","p","o","r","t">>
                    /\ ret.confidence = Pct(95)

\* only import_translation_map changes a table
TablesReadOnly == call'.op # "import_translation_map" => tables' = tables

\* C5: a table key translated without context gets its stored fields and
\* confidence (0.85 by default; 'helpfulness' gives 'Functional Support' with
\* 0.95) whenever it is translated, after any operations, and no translate
\* or analyze operation modifies a table.
DirectLookupStable == []DirectLookupReturnsStored /\ [][TablesReadOnly]_vars

\* a key stored without confidence was translated after other translations
DirectLookupStableWitness ==
    /\ call.op = "translate_value_to_recursion"
    /\ call.value_concept = <<"T","e","c","h","n","i","c","a","l"," ","E","x","c","e","l","l","e","n","c","e">>
    /\ call.context = None
    /\ ret.confidence = Pct(85)
    /\ translation_stats.total_translations >= 2

\* the first domain phrase, in definition order, that the context contains
FirstDomain(context) ==
    IF ~Truthy(context) THEN 0
    ELSE LET matching == {d \in DOMAIN domains : Contains(lower(context), domains[d].key)}
         IN  IF matching = {} THEN 0 ELSE Min(matching)

\* result differs from the result without context at most by one adjustment
AdjustedOnce(result, base, context, selected) ==
    LET fixed == DOMAIN base \ {"confidence", "context_note", "pareto_command",
                                "_symbolic_residue"}
        d == FirstDomain(context)
    IN  /\ \A f \in selected : result[f] = base[f]
        /\ \A f \in fixed : f \in DOMAIN result /\ result[f] = base[f]
        /\ DOMAIN result \subseteq DOMAIN base \cup {"context_note", "pareto_command"}
        /\ IF d = 0
           THEN /\ result.confidence = base.confidence
                /\ "context_note" \notin DOMAIN result
                /\ Get(result, "pareto_command", None) = Get(base, "pareto_command", None)
           ELSE /\ result.confidence = RMin(One, RMul(base.confidence, Pct(110)))
                /\ result.context_note = domains[d].value.domain_note

\* C6: the context never selects the mapping: with any context both
\* directions return the mapping they return without context; only the
\* confidence, the context note and the synthesized command differ, by the
\* adjustment of the first matching domain phrase alone.
ContextOnlyAdjusts ==
    /\ (call.op = "translate_value_to_recursion" /\ ~Raised(ret)) =>
            AdjustedOnce(ret,
                translate_value_to_recursion(translation_stats, call.value_concept,
                                             None, 0).ret,
                call.context, {"recursive_concept", "recursive_shell"})
    /\ call.op = "translate_recursion_to_value" =>
            AdjustedOnce(ret,
                translate_recursion_to_value(translation_stats, call.recursive_concept,
                                             None, 0).ret,
                call.context, {"value_concept", "value_category", "value_subcategory"})

\* a context that contains two domain phrases was given
ContextOnlyAdjustsWitness ==
    /\ call.op = "translate_value_to_recursion"
    /\ call.context = <<"h","u","m","a","n"," ","f","e","e","d","b","a","c","k"," ","o","n"," ","a","l","i","g","n","m","e","n","t">>
    /\ Cardinality({d \in DOMAIN domains :
                        Contains(lower(call.context), domains[d].key)}) = 2
    /\ ret.context_note = <<"H","u","m","a","n"," ","f","e","e","d","b","a","c","k"," ","c","o","n","t","e","x","t">>
    /\ ret.recursive_concept = <<"F","u","n","c","t","i","o","n","a","l"," ","S","u","p","p","o","r","t">>

TypeCounter ==
    [translate_value_to_recursion |-> "value_to_recursion",
     translate_recursion_to_value |-> "recursion_to_value",
     translate_value_taxonomy |-> "taxonomy_translations",
     translate_response_type |-> "response_type_translations"]

TypeCounters == {TypeCounter[op] : op \in Translates}

Buckets == {"high", "medium", "low"}

Bucket(confidence) ==
    IF RLe(Pct(70), confidence) THEN "high"
    ELSE IF RLe(Pct(40), confidence) THEN "medium"
    ELSE "low"

StatsBalanced ==
    LET s == translation_stats
        d == s.confidence_distribution
    IN  /\ s.total_translations = d.high + d.medium + d.low
        /\ s.total_translations = s.value_to_recursion + s.recursion_to_value
                                    + s.taxonomy_translations + s.response_type_translations

\* what a step does to the counters
StatsStep ==
    LET s == translation_stats
        t == translation_stats'
        detected == Len(ret'.value_analysis.detected_values)
    IN  /\ t.total_translations >= s.total_translations
        /\ \A c \in TypeCounters : t[c] >= s[c]
        /\ \A b \in Buckets : t.confidence_distribution[b] >= s.confidence_distribution[b]
        /\ (call'.op \in Translates /\ ~Raised(ret')) =>
                /\ t.total_translations = s.total_translations + 1
                /\ \A c \in TypeCounters :
                        t[c] = s[c] + (IF c = TypeCounter[call'.op] THEN 1 ELSE 0)
                /\ \A b \in Buckets :
                        t.confidence_distribution[b] =
                            s.confidence_distribution[b]
                                + (IF b = Bucket(ret'.confidence) THEN 1 ELSE 0)
        /\ (call'.op = "analyze_value_content" /\ ~Raised(ret')) =>
                /\ t.total_translations = s.total_translations + detected
                /\ t.value_to_recursion = s.value_to_recursion + detected
        /\ call'.op = "import_translation_map" => t = s

\* C7: a translate call adds 1 to total_translations, to the counter of its
\* type and to the one bucket of its final confidence (high from 0.7, medium
\* from 0.4, low below); no counter decreases; after any operations,
\* analyze_value_content included, the total equals the sum of the buckets
\* and the sum of the four type counters.
StatsConsistent == []StatsBalanced /\ [][StatsStep]_vars

\* analyze_value_content translated values into different buckets
StatsConsistentWitness ==
    /\ call.op = "analyze_value_content"
    /\ translation_stats.confidence_distribution.low >= 1
    /\ translation_stats.confidence_distribution.high >= 1
    /\ translation_stats.total_translations >= 3

-----------------------------------------------------------------------------
(* Claims about the stages of translate_value_to_recursion and about the   *)
(* reverse lookup, checked under Spec.                                     *)

\* C17: on the built-in table, translating a key and translating the
\* recursive concept returned back gives the key with the same confidence,
\* for every key, and no two keys share a recursive concept
Bidirectional ==
    BuiltIn =>
        LET now == CHOOSE t \in Timestamps : TRUE
            Back(forward) ==
                translate_recursion_to_value(forward.stats, forward.ret.recursive_concept,
                                             None, now).ret
            Same(key, forward, back) ==
                back.value_concept = key /\ back.confidence = forward.confidence
            Round(key, forward) == Same(key, forward.ret, Back(forward))
        IN  /\ \A i \in DOMAIN values_in_wild_map :
                    Round(values_in_wild_map[i].key,
                          translate_value_to_recursion(translation_stats,
                                                       values_in_wild_map[i].key, None, now))
            /\ \A i, j \in DOMAIN values_in_wild_map :
                    (values_in_wild_map[i].value.recursive_concept
                        = values_in_wild_map[j].value.recursive_concept) => i = j

\* the concept returned for "helpfulness" was translated back
BidirectionalWitness ==
    /\ BuiltIn
    /\ call.op = "translate_recursion_to_value"
    /\ call.context = None
    /\ call.recursive_concept
            = Lookup(values_in_wild_map, <<"h","e","l","p","f","u","l","n","e","s","s">>).recursive_concept
    /\ translation_stats.value_to_recursion = 1
    /\ ret.value_concept = <<"h","e","l","p","f","u","l","n","e","s","s">>
    /\ ret.confidence = Pct(95)

\* a call of translate_value_to_recursion without context that returned, on
\* a term that is no table key
Resolved ==
    /\ call.op = "translate_value_to_recursion"
    /\ ~Raised(ret)
    /\ call.context = None
    /\ ~HasKey(values_in_wild_map, call.value_concept)

\* the stage that resolves the term of the call
ByTaxonomy == Resolved /\ TaxonomyMember(call.value_concept)
BySimilarity ==
    Resolved /\ ~TaxonomyMember(call.value_concept) /\ SimilarKeys(call.value_concept) # {}
ByKeyword ==
    /\ Resolved /\ ~TaxonomyMember(call.value_concept)
    /\ SimilarKeys(call.value_concept) = {} /\ KeywordsIn(call.value_concept) # {}

\* the table key most similar to the term, the first of them in table order
BestMatch(term) ==
    LET Similarity(i) == term_similarity(term, values_in_wild_map[i].key)
    IN  Min({i \in SimilarKeys(term) :
                \A j \in SimilarKeys(term) : RLe(Similarity(j), Similarity(i))})

\* the stored confidence of the best match times its similarity
SimilarityProduct(term) ==
    RMul(Get(values_in_wild_map[BestMatch(term)].value, "confidence", Pct(80)),
         term_similarity(term, values_in_wild_map[BestMatch(term)].key))

\* the result has the fields of the mapping
Copies(result, mapping) ==
    /\ result.recursive_concept = Get(mapping, "recursive_concept", None)
    /\ result.recursive_shell = Get(mapping, "recursive_shell", None)
    /\ result.pareto_command = Get(mapping, "pareto_command", None)
    /\ result.symbolic_glyph = Get(mapping, "symbolic_glyph", None)

\* C18, as claimed: a term resolved by similarity gets the fields of the
\* best match and is returned with its stored confidence times the
\* similarity
SimilarityConfidenceIsProduct ==
    BySimilarity =>
        /\ Copies(ret, values_in_wild_map[BestMatch(call.value_concept)].value)
        /\ ret.confidence = SimilarityProduct(call.value_concept)

\* C18: a term resolved by similarity gets the fields of the best match,
\* and translate_value_to_recursion returns, before any context adjustment,
\* the smaller of 0.6 and the stored confidence times the similarity
SimilarityConfidenceCapped ==
    BySimilarity =>
        /\ Copies(ret, values_in_wild_map[BestMatch(call.value_concept)].value)
        /\ ret.confidence = RMin(SimilarityProduct(call.value_concept), Pct(60))

\* a term resolved by similarity whose product is above 0.6
SimilarityConfidenceCappedWitness ==
    /\ BySimilarity
    /\ RLt(Pct(60), SimilarityProduct(call.value_concept))
    /\ ret.confidence = Pct(60)

\* the first category that lists the term, itself or in a subcategory
ListingCategory(term) ==
    LET Lists(m) ==
            \/ ListsValue(m, term)
            \/ /\ "subcategories" \in DOMAIN m
               /\ \E j \in DOMAIN m.subcategories : ListsValue(m.subcategories[j].value, term)
    IN  value_category_map[Min({i \in DOMAIN value_category_map :
                                    Lists(value_category_map[i].value)})].value

\* the subcategories of a category mapping that list the term
ListingSubcategories(m, term) ==
    IF "subcategories" \in DOMAIN m
    THEN {j \in DOMAIN m.subcategories : ListsValue(m.subcategories[j].value, term)}
    ELSE {}

\* the structural label of a mapping, "" when it has none
Label(m) == Format(Get(m, "recursive_structure", <<>>))

\* the label joined to the term
Labelled(label, term) == label \o <<" ","-"," ">> \o term

\* C19, as claimed: a term resolved by the taxonomy is returned as the
\* structural label of its category joined to the term, with confidence 0.8
\* when a subcategory lists it and 0.75 otherwise
TaxonomyCategoryLabel ==
    ByTaxonomy =>
        LET term == call.value_concept
            m == ListingCategory(term)
        IN  /\ ret.recursive_concept = Labelled(Label(m), term)
            /\ ret.confidence = IF ListingSubcategories(m, term) = {} THEN Pct(75) ELSE Pct(80)

\* C19: a term resolved by the taxonomy that only its category lists is
\* returned as the structural label of the category joined to the term, with
\* confidence 0.75; when a subcategory lists it, the label is the one of the
\* subcategory (of the category if the subcategory has none) and the
\* confidence 0.8
TaxonomyLabel ==
    ByTaxonomy =>
        LET term == call.value_concept
            m == ListingCategory(term)
            subs == ListingSubcategories(m, term)
            sub == m.subcategories[Min(subs)].value
        IN  IF subs = {}
            THEN /\ ret.recursive_concept = Labelled(Label(m), term)
                 /\ ret.confidence = Pct(75)
            ELSE /\ ret.recursive_concept =
                        Labelled(IF "recursive_structure" \in DOMAIN sub
                                 THEN Label(sub) ELSE Label(m), term)
                 /\ ret.confidence = Pct(80)

\* a term that a subcategory lists, whose label is not its category's
TaxonomyLabelWitness ==
    /\ ByTaxonomy
    /\ ListingSubcategories(ListingCategory(call.value_concept), call.value_concept) # {}
    /\ ret.recursive_concept
            # Labelled(Label(ListingCategory(call.value_concept)), call.value_concept)
    /\ ret.confidence = Pct(80)

\* C20: a term resolved by the keyword stage gets the target of the first
\* keyword, in the order of the keyword table, that occurs in a token of the
\* lowercased term split on whitespace, whatever the order of the tokens,
\* with confidence 0.6 and no shell, command or glyph
KeywordInTableOrder ==
    ByKeyword =>
        LET k == Min(KeywordsIn(call.value_concept))
        IN  /\ ret.recursive_concept = value_keyword_map[k].target
            /\ ret.confidence = Pct(60)
            /\ ret.recursive_shell = None
            /\ ret.pareto_command = None
            /\ ret.symbolic_glyph = None
            /\ ret.note = keyword_note(value_keyword_map[k].keyword)

\* a term with two keywords whose first token holds the later keyword only
KeywordInTableOrderWitness ==
    /\ ByKeyword
    /\ Cardinality(KeywordsIn(call.value_concept)) > 1
    /\ ~Contains(split(lower(call.value_concept))[1],
                 value_keyword_map[Min(KeywordsIn(call.value_concept))].keyword)
    /\ call.value_concept # lower(call.value_concept)
-----------------------------------------------------------------------------
(* SpecSim: _calculate_term_similarity and _levenshtein_distance applied   *)
(* to every pair of strings of at most MaxLen characters over SimAlphabet. *)

SimAlphabet == {"a", "b", "A", " "}

RECURSIVE StringsUpTo(_)
StringsUpTo(n) ==
    IF n = 0 THEN {<<>>}
    ELSE LET shorter == StringsUpTo(n - 1)
         IN  shorter \cup {Append(s, c) : s \in shorter, c \in SimAlphabet}

SimStrings == StringsUpTo(MaxLen)

InitSim ==
    /\ term1 \in SimStrings
    /\ term2 \in SimStrings
    /\ sim_pc = "start"
    /\ similarity = Zero
    /\ distance = 0
    /\ MapperIdle
    /\ ScanIdle
    /\ DetectorIdle
    /\ GlyphIdle
    /\ FileIdle
    /\ RelationshipsIdle

CalculateTermSimilarity ==
    /\ sim_pc = "start"
    /\ similarity' = calculate_term_similarity(term1, term2)
    /\ sim_pc' = "done"
    /\ UNCHANGED <<relationship_vars, file_vars, term1, term2, distance, mapper_vars, scan_vars, detector_vars, glyph_vars>>

\* _levenshtein_distance(term1, term2) called on the strings as they are
LevenshteinDistance ==
    /\ sim_pc = "start"
    /\ distance' = levenshtein_distance(term1, term2)
    /\ sim_pc' = "measured"
    /\ UNCHANGED <<relationship_vars, file_vars, term1, term2, similarity, mapper_vars, scan_vars, detector_vars, glyph_vars>>

NextSim == CalculateTermSimilarity \/ LevenshteinDistance

SpecSim == InitSim /\ [][NextSim]_vars

-----------------------------------------------------------------------------
(* SpecScan: the keyword scan of a RecursivePatternDetector and the glyph  *)
(* scans of a SymbolicGlyphRelationships, each on its own detection        *)
(* results, over texts of at most MaxPhrases phrases.                      *)

\* phrases a scanned text is made of
MaxPhrases == 2

\* keywords of one group and of several, in other case than defined, and two
\* glyphs (str.lower() leaves the characters of both as they are)
Phrases ==
    {<<"s","y","m","b","o","l","i","c"," ","r","e","s","i","d","u","e">>,
     <<"r","e","s","i","d","u","e">>,
     <<"C","o","g","n","i","t","i","v","e"," ","T","r","a","c","e">>,
     <<"v","a","l","u","e"," ","d","r","i","f","t">>,
     <<"R","L","H","F">>,
     <<"M","e","t","a","-","C","o","g","n","i","t","i","o","n">>,
     <<"s","e","l","f","-","r","e","f","l","e","c","t","i","o","n">>,
     <<"n","o","t","h","i","n","g"," ","h","e","r","e">>,
     <<"<U+F8FF>","<U+00FC>","<U+00FA>","<U+00E8>">>,
     <<"<U+201A>","<U+00E0>","<U+00A5>">>}

RECURSIVE PhraseTexts(_)
PhraseTexts(n) ==
    IF n = 0 THEN {<<>>}
    ELSE LET shorter == PhraseTexts(n - 1)
         IN  shorter \cup Phrases \cup
             {s \o <<" ">> \o p : s \in shorter \ {<<>>}, p \in Phrases}

ScanTexts == PhraseTexts(MaxPhrases)

InitScan ==
    /\ text \in ScanTexts
    /\ scan_pc = [recursion |-> "start", glyphs |-> "start"]
    /\ results = [recursion |-> recursion_results, glyphs |-> glyph_results]
    /\ MapperIdle
    /\ SimIdle
    /\ DetectorIdle
    /\ GlyphIdle
    /\ FileIdle
    /\ RelationshipsIdle

\* detect_recursion, its first detection method
DetectPatternKeywords ==
    /\ scan_pc.recursion = "start"
    /\ results' = [results EXCEPT !.recursion = detect_pattern_keywords(text, @)]
    /\ scan_pc' = [scan_pc EXCEPT !.recursion = "keywords"]
    /\ UNCHANGED <<relationship_vars, file_vars, text, mapper_vars, sim_vars, detector_vars, glyph_vars>>

\* detect_glyphs, its first detection method
DetectExplicitGlyphs ==
    /\ scan_pc.glyphs = "start"
    /\ results' = [results EXCEPT !.glyphs = detect_explicit_glyphs(text, @)]
    /\ scan_pc' = [scan_pc EXCEPT !.glyphs = "explicit"]
    /\ UNCHANGED <<relationship_vars, file_vars, text, mapper_vars, sim_vars, detector_vars, glyph_vars>>

\* detect_glyphs, its second detection method
DetectSemanticEquivalents ==
    /\ scan_pc.glyphs = "explicit"
    /\ results' = [results EXCEPT !.glyphs = detect_semantic_equivalents(text, @)]
    /\ scan_pc' = [scan_pc EXCEPT !.glyphs = "semantic"]
    /\ UNCHANGED <<relationship_vars, file_vars, text, mapper_vars, sim_vars, detector_vars, glyph_vars>>

NextScan ==
    \/ DetectPatternKeywords
    \/ DetectExplicitGlyphs
    \/ DetectSemanticEquivalents

SpecScan == InitScan /\ [][NextScan]_vars

-----------------------------------------------------------------------------
(* SpecDetect: a RecursivePatternDetector built without configuration and  *)
(* driven by calls of detect_recursion.                                    *)

\* calls of detect_recursion after which the detector is no longer driven
MaxDetections == 1

\* phrases a text given to detect_recursion is made of: plain prose, words the
\* structures and the frameworks look for, a glyph, the zero-width signatures
\* of attribution (bare, and followed by attribution data) and of temporal
\* anchoring, a pareto-lang command, a shell reference, bracketed groups
DetectPhrases ==
    {<<"n","o","t","h","i","n","g"," ","h","e","r","e">>,
     <<"r","e","c","u","r","s","i","v","e"," ","l","o","o","p">>,
     <<"v","a","l","u","e"," ","d","r","i","f","t">>,
     <<"M","e","t","a","-","C","o","g","n","i","t","i","o","n"," ","i","t","s","e","l","f">>,
     <<"<mirror>">>,
     <<"<ZWNJ>","<ZWSP>","<ZWJ>","<ZWNJ>","<ZWSP>","<ZWJ>">>,
     <<"<ZWNJ>","<ZWSP>","<ZWJ>","<ZWNJ>","<ZWSP>","<ZWJ>","[","f","i","e","l","d",":","0","a","1","b","2","c","3","d","]">>,
     <<"<ZWJ>","<ZWNJ>","<ZWSP>","<ZWJ>","<ZWNJ>","<ZWSP>">>,
     <<".","p","/","r","e","f","l","e","c","t",".","c","o","r","e","{","d","e","p","t","h","=","2","}">>,
     <<"v","1",".","M","E","M","T","R","A","C","E">>,
     <<"f","(","a",")"," ","g","(","b",")">>,
     <<"R","L","H","F"," ","t","o","o","l"," ","u","s","e">>,
     <<"R","e","s","p","o","n","s","e"," ","T","y","p","e","s">>}

RECURSIVE DetectTextsOf(_)
DetectTextsOf(n) ==
    IF n = 0 THEN {<<>>}
    ELSE LET shorter == DetectTextsOf(n - 1)
         IN  shorter \cup DetectPhrases \cup
             {s \o <<" ">> \o p : s \in shorter \ {<<>>}, p \in DetectPhrases}

DetectTexts == DetectTextsOf(MaxPhrases)

FrameworkHints == {None, <<"A","n","t","h","r","o","p","i","c">>, <<"o","p","e","n","a","i">>, <<"m","e","t","a">>}

InitDetect ==
    /\ detection_stats =
            [total_detections |-> 0,
             framework_breakdown |-> <<>>,
             confidence_distribution |-> [high |-> 0, medium |-> 0, low |-> 0]]
    /\ detector_call = [op |-> "__init__"]
    /\ detector_ret = EmptyDict
    /\ MapperIdle
    /\ SimIdle
    /\ ScanIdle
    /\ GlyphIdle
    /\ FileIdle
    /\ RelationshipsIdle

DetectRecursion ==
    /\ detection_stats.total_detections < MaxDetections
    /\ \E scanned \in DetectTexts, framework_hint \in FrameworkHints, now \in Timestamps :
        LET Returned(done) ==
                /\ detector_ret' = done.ret
                /\ detection_stats' = done.stats
        IN  /\ detector_call' = [op |-> "detect_recursion", text |-> scanned,
                                 framework_hint |-> framework_hint]
            /\ Returned(detect_recursion(detection_stats, scanned, framework_hint, now))
            /\ UNCHANGED <<relationship_vars, file_vars, mapper_vars, sim_vars, scan_vars, glyph_vars>>

NextDetect == DetectRecursion

SpecDetect == InitDetect /\ [][NextDetect]_vars

-----------------------------------------------------------------------------
(* SpecDetectStats: a RecursivePatternDetector driven by a sequence of     *)
(* detect_recursion calls, for the statistics it keeps between them.       *)

\* calls of detect_recursion after which the detector is no longer driven
MaxStatDetections == 3

\* the texts scanned: empty, plain prose, a glyph, bracketed groups, words a
\* framework looks for, the zero-width signature of temporal anchoring
StatTexts ==
    {<<>>,
     <<"n","o","t","h","i","n","g"," ","h","e","r","e">>,
     <<"<mirror>">>,
     <<"f","(","a",")"," ","g","(","b",")">>,
     <<"r","e","c","u","r","s","i","v","e"," ","l","o","o","p">>,
     <<"h","e","l","p","f","u","l"," ","r","e","s","p","o","n","s","e"," ","t","y","p","e","s">>,
     ZERO_WIDTH_SIGNATURES.temporal_anchor}

StatHints == {None, <<"A","n","t","h","r","o","p","i","c">>}

\* detect_recursion, called again and again
DetectRecursionAgain ==
    /\ detection_stats.total_detections < MaxStatDetections
    /\ \E scanned \in StatTexts, framework_hint \in StatHints, now \in Timestamps :
        LET Returned(done) ==
                /\ detector_ret' = done.ret
                /\ detection_stats' = done.stats
        IN  /\ detector_call' = [op |-> "detect_recursion", text |-> scanned,
                                 framework_hint |-> framework_hint]
            /\ Returned(detect_recursion(detection_stats, scanned, framework_hint, now))
            /\ UNCHANGED <<relationship_vars, file_vars, mapper_vars, sim_vars, scan_vars, glyph_vars>>

NextDetectStats == DetectRecursionAgain

SpecDetectStats == InitDetect /\ [][NextDetectStats]_vars

-----------------------------------------------------------------------------
(* SpecTranslate: a RecursivePatternDetector built without configuration   *)
(* and asked to translate a pattern between two frameworks.                *)

\* the patterns translated: the source patterns of the relationships, one in
\* other case, one inside a longer name, one misspelt, a pattern without
\* relationship, the key "confidence", an unknown name and the empty string
TranslatePatterns ==
    {<<"r","e","c","u","r","s","i","v","e","_","s","e","l","f","_","r","e","f","l","e","c","t","i","o","n">>,
     <<"s","y","m","b","o","l","i","c","_","r","e","s","i","d","u","e">>,
     <<"f","r","a","c","t","a","l","_","c","o","m","p","r","e","s","s","i","o","n">>,
     <<"r","e","c","u","r","s","i","v","e","_","s","h","e","l","l">>,
     <<"R","e","c","u","r","s","i","v","e","_","S","h","e","l","l">>,
     <<"r","e","c","u","r","s","i","v","e","_","s","h","e","l","l","_","v","2">>,
     <<"f","r","a","c","t","a","l","_","c","o","m","p","r","e","s","i","o","n">>,
     <<"r","e","c","u","r","s","i","v","e","_","l","o","o","p">>,
     <<"c","o","n","f","i","d","e","n","c","e">>,
     <<"u","n","k","n","o","w","n">>,
     <<>>}

TranslateFrameworks == {<<"r","e","c","u","r","s","i","v","e">>, <<"a","n","t","h","r","o","p","i","c">>, <<"o","p","e","n","a","i">>, <<"m","e","t","a">>}

InitTranslate ==
    /\ detection_stats =
            [total_detections |-> 0,
             framework_breakdown |-> <<>>,
             confidence_distribution |-> [high |-> 0, medium |-> 0, low |-> 0]]
    /\ detector_call = [op |-> "__init__"]
    /\ detector_ret = EmptyDict
    /\ MapperIdle
    /\ SimIdle
    /\ ScanIdle
    /\ GlyphIdle
    /\ FileIdle
    /\ RelationshipsIdle

TranslateRecursivePattern ==
    \E pattern \in TranslatePatterns, source_framework \in TranslateFrameworks,
       target_framework \in TranslateFrameworks, now \in Timestamps :
        /\ detector_call' = [op |-> "translate_recursive_pattern", pattern |-> pattern,
                             source_framework |-> source_framework,
                             target_framework |-> target_framework]
        /\ detector_ret' = translate_recursive_pattern(pattern, source_framework, target_framework, now)
        /\ UNCHANGED <<relationship_vars, file_vars, detection_stats, mapper_vars, sim_vars, scan_vars, glyph_vars>>

NextTranslate == TranslateRecursivePattern

SpecTranslate == InitTranslate /\ [][NextTranslate]_vars

-----------------------------------------------------------------------------
(* SpecTranslateGlyph: glyph relationships built with the built-in tables   *)
(* and asked to translate a glyph between two frameworks.                  *)

\* the glyphs translated: those of SYMBOLIC_GLYPHS, a string that is none of
\* them and the empty string
TranslateGlyphs == Range(Keys(SYMBOLIC_GLYPHS)) \cup {<<"x">>, <<>>}

\* frameworks with translations, and two names without
GlyphFrameworks == {<<"a","n","t","h","r","o","p","i","c">>, <<"o","p","e","n","a","i">>, <<"r","e","c","u","r","s","i","v","e">>, <<>>}

InitTranslateGlyph ==
    /\ glyph_relationships = SymbolicGlyphRelationships
    /\ glyph_call = [op |-> "__init__"]
    /\ glyph_ret = EmptyDict
    /\ MapperIdle
    /\ SimIdle
    /\ ScanIdle
    /\ DetectorIdle
    /\ FileIdle
    /\ RelationshipsIdle

TranslateGlyph ==
    \E glyph \in TranslateGlyphs, source_framework \in GlyphFrameworks,
       target_framework \in GlyphFrameworks, now \in Timestamps :
        /\ glyph_call' = [op |-> "translate_glyph", glyph |-> glyph,
                          source_framework |-> source_framework,
                          target_framework |-> target_framework]
        /\ glyph_ret' = translate_glyph(glyph, source_framework, target_framework, now)
        /\ UNCHANGED <<relationship_vars, file_vars, glyph_relationships, mapper_vars, sim_vars, scan_vars, detector_vars>>

NextTranslateGlyph == TranslateGlyph

SpecTranslateGlyph == InitTranslateGlyph /\ [][NextTranslateGlyph]_vars

-----------------------------------------------------------------------------
(* SpecReframe: a mapper built with the built-in tables, its detector and  *)
(* its glyph relationships, each driven by calls of its reframing          *)
(* analysis on a pair of texts.                                            *)

\* reframing analyses after which the objects are no longer driven
MaxReframings == 1

\* glyphs by their names in SYMBOLIC_GLYPHS
GlyphNamed(glyph_name) ==
    LET Named(entry) == entry.value.name = glyph_name
    IN  SYMBOLIC_GLYPHS[FirstIndex(SYMBOLIC_GLYPHS, Named)].key

\* all glyphs of SYMBOLIC_GLYPHS but the echo
GlyphsButEcho ==
    LET NotEcho(entry) == entry.value.name # <<"e","c","h","o","_","p","e","r","s","i","s","t","e","n","c","e">>
    IN  Flatten(Keys(SelectSeq(SYMBOLIC_GLYPHS, NotEcho)))

\* the texts compared: empty, without values or patterns, with one value and
\* with two, with a value and recursive patterns, with patterns one of which
\* is matched twice, with an attribution signature, with words that stand
\* for three glyphs, with two of these words among explicit glyphs, with
\* every glyph among words of five resonance patterns, and with words that
\* stand for one glyph and match no resonance pattern
ReframeTexts ==
    {<<>>,
     <<"n","o","t","h","i","n","g"," ","h","e","r","e">>,
     <<"c","l","a","r","i","t","y">>,
     <<"c","l","a","r","i","t","y"," ","a","n","d"," ","e","f","f","i","c","i","e","n","c","y">>,
     <<"r","e","c","u","r","s","i","v","e"," ","l","o","o","p">>,
     <<"h","e","l","p","f","u","l","n","e","s","s"," ","r","e","c","u","r","s","i","v","e"," ","l","o","o","p">>,
     <<"h","e","l","p","f","u","l","n","e","s","s"," ","c","l","a","r","i","t","y"," ","r","e","c","u","r","s","i","v","e"," ","l","o","o","p">>,
     <<"h","e","l","p","f","u","l","n","e","s","s"," ","h","o","n","e","s","t","y"," ","h","a","r","m","l","e","s","s","n","e","s","s"," ","c","o","n","s","t","i","t","u","t","i","o","n","a","l"," ","v","a","l","u","e","s">>,
     <<"v","a","l","u","e"," ","d","r","i","f","t">>,
     ZERO_WIDTH_SIGNATURES.attribution \o <<"[","f","i","e","l","d",":","0","a","1","b","2","c","3","d","]"," ","r","e","c","u","r","s","i","v","e"," ","l","o","o","p">>,
     <<"i","n","f","o","r","m","a","t","i","o","n"," ","d","e","n","s","i","t","y"," ","s","t","a","b","l","e"," ","r","e","f","e","r","e","n","c","e"," ","e","c","h","o"," ","p","e","r","s","i","s","t","e","n","c","e">>,
     <<"i","n","f","o","r","m","a","t","i","o","n"," ","d","e","n","s","i","t","y"," ","s","t","a","b","l","e"," ","r","e","f","e","r","e","n","c","e"," ","e","c","h","o"," ","t","a","x","o","n","o","m","y"," ","f","r","a","c","t","a","l"," ">> \o GlyphsButEcho,
     Flatten(Keys(SYMBOLIC_GLYPHS)) \o <<" ","e","d","g","e"," ","l","i","m","i","t"," ","d","o","m","a","i","n"," ","e","c","h","o"," ","g","h","o","s","t">>,
     <<"r","e","f","e","r","e","n","c","e"," ","s","t","a","b","i","l","i","t","y">>}

InitReframe ==
    /\ value_taxonomy_map = load_value_taxonomy_map
    /\ value_category_map = load_value_category_map
    /\ response_type_map = load_response_type_map
    /\ values_in_wild_map = load_values_in_wild_map
    /\ translation_stats =
            [total_translations |-> 0,
             value_to_recursion |-> 0,
             recursion_to_value |-> 0,
             taxonomy_translations |-> 0,
             response_type_translations |-> 0,
             confidence_distribution |-> [high |-> 0, medium |-> 0, low |-> 0]]
    /\ call = [op |-> "__init__"]
    /\ ret = EmptyDict
    /\ detection_stats =
            [total_detections |-> 0,
             framework_breakdown |-> <<>>,
             confidence_distribution |-> [high |-> 0, medium |-> 0, low |-> 0]]
    /\ detector_call = [op |-> "__init__"]
    /\ detector_ret = EmptyDict
    /\ glyph_relationships = SymbolicGlyphRelationships
    /\ glyph_call = [op |-> "__init__"]
    /\ glyph_ret = EmptyDict
    /\ SimIdle
    /\ ScanIdle
    /\ FileIdle
    /\ RelationshipsIdle

\* each analysis detects twice
Reframing ==
    detection_stats.total_detections + glyph_relationships.detection_stats.total_detections
        < 2 * MaxReframings

\* mapper.detect_reframing_attempt
DetectReframingAttempt ==
    /\ Reframing
    /\ \E original_text \in ReframeTexts, reframed_text \in ReframeTexts, now \in Timestamps :
        LET Returned(done) ==
                /\ ret' = done.ret
                /\ translation_stats' = done.stats
                /\ detection_stats' = done.components.pattern_detector
                /\ glyph_relationships' = done.components.glyph_relationships
        IN  /\ call' = [op |-> "detect_reframing_attempt",
                        original_text |-> original_text, reframed_text |-> reframed_text]
            /\ Returned(detect_reframing_attempt(translation_stats,
                            [pattern_detector |-> detection_stats,
                             glyph_relationships |-> glyph_relationships],
                            original_text, reframed_text, now))
            /\ UNCHANGED <<relationship_vars, file_vars, tables, sim_vars, scan_vars, detector_call, detector_ret,
                           glyph_call, glyph_ret>>

\* mapper.glyph_relationships.detect_framework_reframing
GlyphsDetectFrameworkReframing ==
    /\ Reframing
    /\ \E original_text \in ReframeTexts, reframed_text \in ReframeTexts, now \in Timestamps :
        LET Returned(done) ==
                /\ glyph_ret' = done.ret
                /\ glyph_relationships' = done.self
        IN  /\ glyph_call' = [op |-> "detect_framework_reframing",
                              original_text |-> original_text, reframed_text |-> reframed_text]
            /\ Returned(glyphs_detect_framework_reframing(glyph_relationships,
                            original_text, reframed_text, now))
            /\ UNCHANGED <<relationship_vars, file_vars, mapper_vars, sim_vars, scan_vars, detector_vars>>

\* mapper.pattern_detector.detect_framework_reframing
DetectFrameworkReframing ==
    /\ Reframing
    /\ \E original_text \in ReframeTexts, reframed_text \in ReframeTexts, now \in Timestamps :
        LET Returned(done) ==
                /\ detector_ret' = done.ret
                /\ detection_stats' = done.stats
        IN  /\ detector_call' = [op |-> "detect_framework_reframing",
                                 original_text |-> original_text, reframed_text |-> reframed_text]
            /\ Returned(detect_framework_reframing(detection_stats, original_text, reframed_text, now))
            /\ UNCHANGED <<relationship_vars, file_vars, mapper_vars, sim_vars, scan_vars, glyph_vars>>

NextReframe ==
    \/ DetectReframingAttempt
    \/ GlyphsDetectFrameworkReframing
    \/ DetectFrameworkReframing

SpecReframe == InitReframe /\ [][NextReframe]_vars
-----------------------------------------------------------------------------
(* Specification SpecExport: export_translation_map, and                   *)
(* import_translation_map of the documents and of the file it wrote.       *)

\* the readings of time.time() an export may see
ExportTimestamps == {1700000000, 1700000060}

\* the document export_translation_map dumps, as json.load reads it back:
\* the tables hold dicts keyed by strings, lists, strings and floats only,
\* which json.dump and json.load return as they are
export_translation_map(now) ==
    [value_taxonomy_map |-> Object(value_taxonomy_map),
     value_category_map |-> Object(value_category_map),
     response_type_map |-> Object(response_type_map),
     values_in_wild_map |-> Object(values_in_wild_map),
     metadata |-> Object(
        [exported_at |-> now,
         version |-> <<"1", ".", "0", ".", "0">>,
         attribution |->
            [source |-> <<"r","e","c","u","r","s","i","v","e","-","f","i","e","l","d">>,
             signature |-> [sha256 |-> <<"value-recursion-", now>>]]])]

\* export_translation_map(file_path): open raises when the path is not writable
ExportTranslationMap ==
    \E now \in ExportTimestamps, writable \in BOOLEAN :
        /\ call' = [op |-> "export_translation_map", writable |-> writable]
        /\ ret' = [value |-> writable]
        /\ file' = IF writable THEN export_translation_map(now) ELSE file
        /\ UNCHANGED <<relationship_vars, tables, translation_stats, sim_vars, scan_vars, detector_vars, glyph_vars>>

\* import_translation_map(file_path) of the path of the exports
ImportExported == Imports(file)

NextExport ==
    \/ ExportTranslationMap
    \/ ImportExported
    \/ ImportTranslationMap

SpecExport == Init /\ [][NextExport]_vars

-----------------------------------------------------------------------------
(* SpecGlyphs: a SymbolicGlyphRelationships object driven by calls of      *)
(* detect_glyphs and detect_framework_reframing.                           *)

\* detections after which the object is no longer driven
MaxGlyphDetections == 3

\* the texts scanned: empty, with the mirror glyph once and six times, with
\* the mirror glyph and the seed glyph, with words that stand for one glyph,
\* and with a word of a resonance pattern
GlyphTexts ==
    {<<>>,
     GlyphNamed(<<"m","i","r","r","o","r","_","a","c","t","i","v","a","t","i","o","n">>),
     Flatten([i \in 1..6 |-> GlyphNamed(<<"m","i","r","r","o","r","_","a","c","t","i","v","a","t","i","o","n">>)]),
     GlyphNamed(<<"m","i","r","r","o","r","_","a","c","t","i","v","a","t","i","o","n">>) \o GlyphNamed(<<"s","y","m","b","o","l","i","c","_","r","e","s","i","d","u","e">>),
     <<"r","e","f","e","r","e","n","c","e"," ","s","t","a","b","i","l","i","t","y">>,
     <<"e","c","h","o">>}

GlyphHints == {None, <<"a","n","t","h","r","o","p","i","c">>}

InitGlyphs ==
    /\ glyph_relationships = SymbolicGlyphRelationships
    /\ glyph_call = [op |-> "__init__"]
    /\ glyph_ret = EmptyDict
    /\ MapperIdle
    /\ SimIdle
    /\ ScanIdle
    /\ DetectorIdle
    /\ FileIdle
    /\ RelationshipsIdle

DetectingGlyphs == glyph_relationships.detection_stats.total_detections < MaxGlyphDetections

\* detect_glyphs
DetectGlyphs ==
    /\ DetectingGlyphs
    /\ \E scanned \in GlyphTexts, framework_hint \in GlyphHints, now \in Timestamps :
        LET Returned(done) ==
                /\ glyph_ret' = done.ret
                /\ glyph_relationships' = done.self
        IN  /\ glyph_call' = [op |-> "detect_glyphs", text |-> scanned,
                              framework_hint |-> framework_hint]
            /\ Returned(detect_glyphs(glyph_relationships, scanned, framework_hint, now))
            /\ UNCHANGED <<relationship_vars, file_vars, mapper_vars, sim_vars, scan_vars, detector_vars>>

\* detect_framework_reframing
CompareGlyphs ==
    /\ DetectingGlyphs
    /\ \E original_text \in GlyphTexts, reframed_text \in GlyphTexts, now \in Timestamps :
        LET Returned(done) ==
                /\ glyph_ret' = done.ret
                /\ glyph_relationships' = done.self
        IN  /\ glyph_call' = [op |-> "detect_framework_reframing",
                              original_text |-> original_text, reframed_text |-> reframed_text]
            /\ Returned(glyphs_detect_framework_reframing(glyph_relationships,
                            original_text, reframed_text, now))
            /\ UNCHANGED <<relationship_vars, file_vars, mapper_vars, sim_vars, scan_vars, detector_vars>>

NextGlyphs == DetectGlyphs \/ CompareGlyphs

SpecGlyphs == InitGlyphs /\ [][NextGlyphs]_vars

-----------------------------------------------------------------------------
(* SpecRelationships: a RecursiveRelationshipMap built without             *)
(* configuration and driven by calls of add_framework_relationship and     *)
(* get_equivalent_concept.                                                 *)

\* add_framework_relationship calls after which the map is only queried
MaxRelationshipsAdded == 2

\* the frameworks of the calls: two of the built-in table and one it lacks
SourceFrameworks == {<<"r","e","c","u","r","s","i","v","e">>, <<"c","u","s","t","o","m">>}
TargetFrameworks == {<<"a","n","t","h","r","o","p","i","c">>, <<"c","u","s","t","o","m">>}

\* the relationships added: two for a concept the built-in table relates to
\* anthropic, one of them with a confidence only, two for a new concept, and
\* one without source concept
AddedRelationships ==
    {[source_concept |-> <<"s","y","m","b","o","l","i","c","_","r","e","s","i","d","u","e">>, target_concept |-> <<"v","a","l","u","e","_","s","t","a","b","i","l","i","t","y">>,
      confidence |-> Pct(90)],
     [source_concept |-> <<"s","y","m","b","o","l","i","c","_","r","e","s","i","d","u","e">>, confidence |-> Pct(50)],
     [source_concept |-> <<"n","e","w","_","c","o","n","c","e","p","t">>, target_concept |-> <<"v","a","l","u","e","_","s","t","a","b","i","l","i","t","y">>],
     [source_concept |-> <<"n","e","w","_","c","o","n","c","e","p","t">>, target_concept |-> <<"v","a","l","u","e","_","d","r","i","f","t">>],
     [target_concept |-> <<"v","a","l","u","e","_","d","r","i","f","t">>]}

\* the concepts asked for
Concepts == {<<"s","y","m","b","o","l","i","c","_","r","e","s","i","d","u","e">>, <<"n","e","w","_","c","o","n","c","e","p","t">>, <<"f","r","a","c","t","a","l","_","c","o","m","p","r","e","s","s","i","o","n">>, None}

InitRelationships ==
    /\ framework_relationships = load_framework_relationships
    /\ relationship_call = [op |-> "__init__"]
    /\ relationship_ret = EmptyDict
    /\ relationships_added = 0
    /\ MapperIdle
    /\ SimIdle
    /\ ScanIdle
    /\ DetectorIdle
    /\ GlyphIdle
    /\ FileIdle

AddFrameworkRelationship ==
    /\ relationships_added < MaxRelationshipsAdded
    /\ \E source_framework \in SourceFrameworks, target_framework \in TargetFrameworks,
          relationship \in AddedRelationships :
        /\ relationship_call' = [op |-> "add_framework_relationship",
                                 source_framework |-> source_framework,
                                 target_framework |-> target_framework,
                                 relationship |-> relationship]
        /\ framework_relationships' =
                add_framework_relationship(framework_relationships,
                    source_framework, target_framework, relationship)
        /\ relationship_ret' = [value |-> TRUE]
        /\ relationships_added' = relationships_added + 1
        /\ UNCHANGED <<file_vars, mapper_vars, sim_vars, scan_vars, detector_vars, glyph_vars>>

GetEquivalentConcept ==
    \E concept \in Concepts, source_framework \in SourceFrameworks,
       target_framework \in TargetFrameworks :
        /\ relationship_call' = [op |-> "get_equivalent_concept", concept |-> concept,
                                 source_framework |-> source_framework,
                                 target_framework |-> target_framework]
        /\ relationship_ret' =
                [value |-> get_equivalent_concept(framework_relationships, concept,
                                source_framework, target_framework)]
        /\ UNCHANGED <<file_vars, mapper_vars, sim_vars, scan_vars, detector_vars, glyph_vars,
                       framework_relationships, relationships_added>>

NextRelationships == AddFrameworkRelationship \/ GetEquivalentConcept

SpecRelationships == InitRelationships /\ [][NextRelationships]_vars

-----------------------------------------------------------------------------
(* Properties of the similarity, checked under SpecSim.                    *)

\* the definitions the properties are stated with, independent of the code
SubstringsOf(s) ==
    {<<>>} \cup {SubSeq(s, p[1], p[2]) : p \in {q \in (1..Len(s)) \X (1..Len(s)) : q[1] <= q[2]}}

WordsOf(s) ==
    {SubSeq(s, p[1], p[2]) : p \in
        {q \in (1..Len(s)) \X (1..Len(s)) :
            /\ q[1] <= q[2]
            /\ \A k \in q[1]..q[2] : s[k] \notin Whitespace
            /\ (q[1] = 1 \/ s[q[1] - 1] \in Whitespace)
            /\ (q[2] = Len(s) \/ s[q[2] + 1] \in Whitespace)}}

RECURSIVE EditDistance(_, _)
EditDistance(a, b) ==
    IF a = <<>> THEN Len(b)
    ELSE IF b = <<>> THEN Len(a)
    ELSE Min({EditDistance(Tail(a), b) + 1,
              EditDistance(a, Tail(b)) + 1,
              EditDistance(Tail(a), Tail(b)) + (IF Head(a) = Head(b) THEN 0 ELSE 1)})

NonZero(n) == IF n = 0 THEN 1 ELSE n

\* n/d = 0.2*ci/cu + 0.4*wi/wu + 0.2*l/m + 0.2*(1 - e/M), cleared of
\* denominators; a quotient whose denominator is 0 counts as 0
IsWeightedSum(sim, a, b) ==
    LET ci == Cardinality(Range(a) \cap Range(b))
        cu == NonZero(Cardinality(Range(a) \cup Range(b)))
        wi == Cardinality(WordsOf(a) \cap WordsOf(b))
        wu == NonZero(Cardinality(WordsOf(a) \cup WordsOf(b)))
        l == Max({Len(u) : u \in SubstringsOf(a) \cap SubstringsOf(b)})
        m == Min({Len(a), Len(b)})
        e == EditDistance(a, b)
        M == Max({Len(a), Len(b)})
        lm == IF m = 0 THEN 0 ELSE l
        m1 == NonZero(m)
        eM == IF M = 0 THEN 0 ELSE M - e
        M1 == NonZero(M)
    IN  sim[1] * (5 * cu * wu * m1 * M1)
          = sim[2] * (ci * wu * m1 * M1 + 2 * wi * cu * m1 * M1
                      + lm * cu * wu * M1 + eM * cu * wu * m1)

\* C8: _calculate_term_similarity is symmetric: the value returned for
\* (term1, term2) is the value it returns for (term2, term1).
SimilaritySymmetric ==
    sim_pc = "done" => similarity = calculate_term_similarity(term2, term1)

SimilaritySymmetricWitness ==
    /\ sim_pc = "done"
    /\ Len(term1) < Len(term2)
    /\ lower(term1) # lower(term2)
    /\ RLt(Zero, similarity)

\* C9: the similarity lies in [0,1], is exactly 1 when the two strings are
\* equal after lowercasing, and is otherwise the weighted sum of the four
\* sub-scores of the lowercased strings.
SimilarityValue ==
    sim_pc = "done" =>
        /\ RLe(Zero, similarity) /\ RLe(similarity, One)
        /\ similarity[2] > 0
        /\ (lower(term1) = lower(term2) => similarity = One)
        /\ (lower(term1) # lower(term2) =>
                IsWeightedSum(similarity, lower(term1), lower(term2)))

SimilarityValueWitness ==
    /\ sim_pc = "done"
    /\ lower(term1) # lower(term2)
    /\ Len(split(term1)) = 2
    /\ Len(split(term2)) = 1
    /\ split(term1)[1] = split(term2)[1]
    /\ RLt(Zero, similarity) /\ RLt(similarity, One)


\* C21: _levenshtein_distance is the standard edit distance (the least number
\* of single-character insertions, deletions and substitutions): it is 0
\* exactly when the strings are equal, it is the other string's length when
\* one string is empty, and it is symmetric in its arguments.
LevenshteinIsEditDistance ==
    sim_pc = "measured" =>
        /\ distance = EditDistance(term1, term2)
        /\ (distance = 0 <=> term1 = term2)
        /\ (term1 = <<>> => distance = Len(term2))
        /\ (term2 = <<>> => distance = Len(term1))
        /\ distance = levenshtein_distance(term2, term1)

LevenshteinIsEditDistanceWitness ==
    /\ sim_pc = "measured"
    /\ Len(term1) < Len(term2)
    /\ term1 # <<>>
    /\ lower(term1) = lower(SubSeq(term2, 2, Len(term2)))
    /\ distance = 2
-----------------------------------------------------------------------------
(* The keyword scans: one hit per group, by the first keyword.             *)

\* keyword.lower() in text.lower(), for the scanned text
OccursInText(keyword) == Contains(lower(text), lower(keyword))

\* the places, in definition order, of the keywords of a group that occur
Occurring(keywords) == {i \in DOMAIN keywords : OccursInText(keywords[i])}

\* the keyword hits reported for a pattern of a framework
KeywordHits(framework, pattern) ==
    LET Hit(match) == /\ match.framework = framework
                      /\ match.pattern = pattern
                      /\ match.match_type = <<"k","e","y","w","o","r","d">>
    IN  SelectSeq(results.recursion.patterns, Hit)

\* the detections reported for a glyph, and the semantic ones among them
GlyphHits(glyph) ==
    LET Hit(detection) == detection.glyph = glyph
    IN  SelectSeq(results.glyphs.detected_glyphs, Hit)

SemanticHits(glyph) ==
    LET Hit(detection) == detection.detection_type = <<"s","e","m","a","n","t","i","c">>
    IN  SelectSeq(GlyphHits(glyph), Hit)

OneKeywordHitPerPattern ==
    scan_pc.recursion = "keywords" =>
        \A f \in DOMAIN pattern_map : \A p \in DOMAIN pattern_map[f].value :
            LET keywords == pattern_map[f].value[p].value.keywords
                hits == KeywordHits(pattern_map[f].key, pattern_map[f].value[p].key)
            IN  /\ Len(hits) <= 1
                /\ Occurring(keywords) = {} => hits = <<>>
                /\ Occurring(keywords) # {} =>
                        /\ Len(hits) = 1
                        /\ hits[1].keyword = keywords[Min(Occurring(keywords))]

OneSemanticHitPerGlyph ==
    scan_pc.glyphs = "semantic" =>
        \A g \in DOMAIN semantic_equivalents :
            LET glyph == semantic_equivalents[g].key
                equivalents == semantic_equivalents[g].value
                semantic == SemanticHits(glyph)
            IN  /\ Len(semantic) <= 1
                /\ Occurring(equivalents) = {} => semantic = <<>>
                /\ semantic # <<>> =>
                        semantic[1].semantic_match = equivalents[Min(Occurring(equivalents))]
                /\ Occurring(equivalents) # {} =>
                        /\ Len(GlyphHits(glyph)) = 1
                        /\ ~Contains(text, glyph) => Len(semantic) = 1

\* C10: a keyword scan emits at most one hit per group, by the first keyword
\* in definition order that occurs in the text ignoring case.  After
\* _detect_pattern_keywords every pattern of every framework has one keyword
\* hit if a keyword of it occurs and none otherwise; after
\* _detect_semantic_equivalents every glyph has at most one semantic hit, and
\* a glyph of which an equivalent occurs has exactly one detection: the
\* semantic one, or the explicit one when the glyph itself is in the text.
KeywordScanFirstMatch == OneKeywordHitPerPattern /\ OneSemanticHitPerGlyph

\* both scans ran on a text with two keywords of one pattern and with two
\* equivalents of a glyph that is not itself in the text, the first of them in
\* definition order being the last in the text
KeywordScanFirstMatchWitness ==
    /\ scan_pc = [recursion |-> "keywords", glyphs |-> "semantic"]
    /\ \E f \in DOMAIN pattern_map : \E p \in DOMAIN pattern_map[f].value :
            LET keywords == pattern_map[f].value[p].value.keywords
            IN  /\ Cardinality(Occurring(keywords)) >= 2
                /\ KeywordHits(pattern_map[f].key, pattern_map[f].value[p].key) # <<>>
    /\ text = <<"v","a","l","u","e"," ","d","r","i","f","t"," ","s","y","m","b","o","l","i","c"," ","r","e","s","i","d","u","e">>
    /\ \E g \in DOMAIN semantic_equivalents :
            /\ Cardinality(Occurring(semantic_equivalents[g].value)) >= 2
            /\ ~Contains(text, semantic_equivalents[g].key)
            /\ SemanticHits(semantic_equivalents[g].key) # <<>>

-----------------------------------------------------------------------------
(* detect_recursion: the aggregate confidence.                             *)

\* the confidences the categories of a detection result contribute: the mean
\* of the pattern confidences, the mean of the structure confidences, 0.95 for
\* symbolic residue, 0.9 for attribution, the temporal resilience; a category
\* without a hit contributes nothing
Contributions(r) ==
    LET Confidences(hits) == [i \in DOMAIN hits |-> hits[i].confidence]
        Average(xs) == RDiv(RSum(xs), Rat(Len(xs), 1))
    IN  (IF Len(r.patterns) > 0 THEN <<Average(Confidences(r.patterns))>> ELSE <<>>)
        \o (IF Len(r.recursive_structures) > 0
            THEN <<Average(Confidences(r.recursive_structures))>> ELSE <<>>)
        \o (IF Len(r.symbolic_residue) > 0 THEN <<Rat(95, 100)>> ELSE <<>>)
        \o (IF r.attribution # Null THEN <<Rat(9, 10)>> ELSE <<>>)
        \o (IF r.temporal_resilience # Zero THEN <<r.temporal_resilience>> ELSE <<>>)

\* C11: the confidence detect_recursion returns is the arithmetic mean of the
\* confidences of the categories that produced a hit (confidence times their
\* number is their sum), it is 0.0 when no category produced one, as for the
\* empty text, and detected is true exactly when it is strictly above 0.4.
AggregateConfidence ==
    detector_call.op = "detect_recursion" =>
        LET contributions == Contributions(detector_ret)
        IN  /\ RMul(detector_ret.confidence, Rat(Len(contributions), 1)) = RSum(contributions)
            /\ contributions = <<>> => detector_ret.confidence = Zero
            /\ detector_call.text = <<>> => detector_ret.confidence = Zero
            /\ detector_ret.detected <=> RLt(Rat(4, 10), detector_ret.confidence)

\* a detection with pattern and structure hits, without residue, attribution
\* or temporal resilience, whose confidence is the mean of two contributions
AggregateConfidenceWitness ==
    /\ detector_call.op = "detect_recursion"
    /\ Len(detector_ret.patterns) > 1
    /\ detector_ret.recursive_structures # <<>>
    /\ detector_ret.symbolic_residue = <<>>
    /\ detector_ret.attribution = Null
    /\ detector_ret.temporal_resilience = Zero
    /\ Len(Contributions(detector_ret)) = 2
    /\ detector_ret.detected

-----------------------------------------------------------------------------
(* Claims about the reframing analyses, checked under SpecReframe.         *)

\* the distinct values _extract_values_from_text finds in a text
ValuesIn(input) == Range(extract_values_from_text(input).detected_values)

\* the distinct names of the patterns analyze_value_content keeps of a text
PatternsIn(input) ==
    LET Kept(detection) ==
            IF detection.detected
            THEN {detection.patterns[i].pattern : i \in DOMAIN detection.patterns}
            ELSE {}
    IN  Kept(detect_recursion(detection_stats, input, <<"a","n","t","h","r","o","p","i","c">>,
                              CHOOSE now \in Timestamps : TRUE).ret)

\* the mapper has returned a reframing analysis
Compared == call.op = "detect_reframing_attempt" /\ ~Raised(ret)

\* C12: for the detected values and for the detected recursive patterns, the
\* analysis holds preserved = original \cap revised, lost = original \ revised,
\* new = revised \ original over the sets of distinct identifiers, and
\* preservation_ratio = |preserved| / max(|original|, 1) with original the
\* set of distinct identifiers of the original text
PreservationOverDistinct ==
    Compared =>
        LET Preservation(original, revised) ==
                <<original \cap revised, original \ revised, revised \ original,
                  Rat(Cardinality(original \cap revised), Max({Cardinality(original), 1}))>>
            value_preservation == ret.value_preservation
            recursive_preservation == ret.recursive_preservation
        IN  /\ <<value_preservation.preserved_values, value_preservation.lost_values,
                 value_preservation.new_values, value_preservation.preservation_ratio>>
                    = Preservation(ValuesIn(call.original_text), ValuesIn(call.reframed_text))
            /\ <<recursive_preservation.preserved_patterns, recursive_preservation.lost_patterns,
                 recursive_preservation.new_patterns, recursive_preservation.preservation_ratio>>
                    = Preservation(PatternsIn(call.original_text), PatternsIn(call.reframed_text))

\* a threshold of detect_reframing_attempt trips
Trips(reframing_analysis) ==
    \/ RLt(reframing_analysis.value_preservation.preservation_ratio, Pct(70))
    \/ RLt(reframing_analysis.recursive_preservation.preservation_ratio, Pct(70))
    \/ RLt(Pct(30), reframing_analysis.field_coherence_impact)

\* C13: detect_reframing_attempt reports reframing_detected exactly when a
\* preservation ratio is below 0.7 or the field coherence impact is above
\* 0.3; when none trips, the type stays None and the confidence 0.0, and
\* when one trips the type is a label
ReframingThresholds ==
    Compared =>
        /\ ret.reframing_detected = Trips(ret)
        /\ ~Trips(ret) => ret.reframing_type = None /\ ret.confidence = Zero
        /\ Trips(ret) => ret.reframing_type # None /\ ret.reframing_type # <<>>

\* an analysis of two texts that share their value and their patterns, which
\* no threshold trips on
ReframingThresholdsWitness ==
    /\ Compared
    /\ ret.value_preservation.preserved_values # {}
    /\ ret.recursive_preservation.preserved_patterns # {}
    /\ call.original_text # call.reframed_text
    /\ ~ret.reframing_detected

InUnit(x) == RLe(Zero, x) /\ RLe(x, One)

\* C14: the confidence each of the three reframing analyses reports lies in
\* [0, 1], for every pair of texts
ReframingConfidenceInUnit ==
    /\ Compared => InUnit(ret.confidence)
    /\ glyph_call.op = "detect_framework_reframing" => InUnit(glyph_ret.confidence)
    /\ detector_call.op = "detect_framework_reframing" => InUnit(detector_ret.confidence)

-----------------------------------------------------------------------------
(* Claims about the tables of the mapper, checked under Spec.              *)

\* C15: an import that reports failure by returning False leaves every table
\* exactly as it was before the call
FailedImportKeepsTables ==
    [][call'.op = "import_translation_map" /\ ret' = [value |-> FALSE] => tables' = tables]_vars

-----------------------------------------------------------------------------
(* Claims about export_translation_map, checked under SpecExport.          *)

\* the tables a document holds
Exported(translation_data) ==
    <<translation_data.value_taxonomy_map.object, translation_data.value_category_map.object,
      translation_data.response_type_map.object, translation_data.values_in_wild_map.object>>

-----------------------------------------------------------------------------
(* Claims about the glyph relationships' reframing analysis, checked under *)
(* SpecReframe.                                                            *)

\* the glyph relationships have returned a reframing analysis
GlyphsCompared == glyph_call.op = "detect_framework_reframing"

\* the rules of the classification in their order, each with its label
ReframingRules(reframing_analysis) ==
    LET preservation == reframing_analysis.semantic_preservation.overall_preservation
    IN  <<[applies |-> reframing_analysis.preserved_glyphs = {} /\ reframing_analysis.lost_glyphs # {},
           label |-> <<"c","o","m","p","l","e","t","e","_","s","y","m","b","o","l","i","c","_","e","r","a","s","u","r","e">>],
          [applies |-> RLt(Pct(70), reframing_analysis.field_coherence_impact),
           label |-> <<"f","i","e","l","d","_","c","o","h","e","r","e","n","c","e","_","c","o","l","l","a","p","s","e">>],
          [applies |-> RLt(preservation, Pct(30)),
           label |-> <<"s","e","m","a","n","t","i","c","_","d","i","s","c","o","n","n","e","c","t","i","o","n">>],
          [applies |-> RLt(preservation, Pct(70)),
           label |-> <<"p","a","r","t","i","a","l","_","s","e","m","a","n","t","i","c","_","p","r","e","s","e","r","v","a","t","i","o","n">>],
          [applies |-> TRUE,
           label |-> <<"m","i","n","o","r","_","s","y","m","b","o","l","i","c","_","r","e","f","r","a","m","i","n","g">>]>>

\* the label of the first rule that applies
FirstRule(rules) == rules[Min({i \in DOMAIN rules : rules[i].applies})].label

\* C22: the type the glyph relationships report for a detected reframing is
\* the label of the first rule that applies, in the order complete erasure,
\* coherence collapse, semantic disconnection, partial preservation, minor
\* reframing; complete erasure wins over coherence collapse when both apply
ReframingTypeFirstRule ==
    GlyphsCompared /\ glyph_ret.reframing_detected =>
        glyph_ret.reframing_type = FirstRule(ReframingRules(glyph_ret))

\* every glyph is lost and the coherence falls by more than 0.7
ReframingTypeFirstRuleWitness ==
    /\ GlyphsCompared
    /\ glyph_ret.reframing_detected
    /\ ReframingRules(glyph_ret)[1].applies
    /\ ReframingRules(glyph_ret)[2].applies
    /\ glyph_ret.reframing_type = <<"c","o","m","p","l","e","t","e","_","s","y","m","b","o","l","i","c","_","e","r","a","s","u","r","e">>

-----------------------------------------------------------------------------
(* Claims about the translation of patterns, checked under SpecTranslate.  *)

\* the relationships between the frameworks of the call that have the
\* pattern of the call as their source pattern
DirectHits ==
    LET relationships == relationships_between(detector_call.source_framework,
                                               detector_call.target_framework)
    IN  {relationships[i] : i \in {j \in DOMAIN relationships :
                                    relationships[j].source_pattern = detector_call.pattern}}

\* C23: on a direct hit translate_recursive_pattern returns the target
\* pattern of the relationship whose source pattern is the pattern, together
\* with the confidence stored in that same relationship
DirectHitConfidence ==
    detector_call.op = "translate_recursive_pattern" =>
        \A relationship \in DirectHits :
            /\ detector_ret.translated_pattern = relationship.target_pattern
            /\ detector_ret.confidence = relationship.confidence

-----------------------------------------------------------------------------
(* Claims about the translation of glyphs, checked under                   *)
(* SpecTranslateGlyph.                                                     *)

\* C24: translate_glyph returns a translated_symbol that is not None and a
\* confidence in [0, 1], for every glyph string and every pair of framework
\* names
TranslateGlyphTotal ==
    glyph_call.op = "translate_glyph" =>
        /\ glyph_ret.translated_symbol # None
        /\ InUnit(glyph_ret.confidence)

-----------------------------------------------------------------------------
(* Claims about the three reframing analyses, checked under SpecReframe.   *)

\* C25: none of the three reframing analyses reports a reframing when the
\* revised text is the original text, whatever the text holds
SameTextNotReframed ==
    /\ Compared /\ call.original_text = call.reframed_text => ~ret.reframing_detected
    /\ (detector_call.op = "detect_framework_reframing"
        /\ detector_call.original_text = detector_call.reframed_text)
            => ~detector_ret.reframing_detected
    /\ (glyph_call.op = "detect_framework_reframing"
        /\ glyph_call.original_text = glyph_call.reframed_text)
            => ~glyph_ret.reframing_detected

\* the types _determine_reframing_type can return once the attribution
\* preservation is 0.0
ErasureTypes ==
    {<<"c","o","m","p","l","e","t","e","_","v","a","l","u","e","_","e","r","a","s","u","r","e">>, <<"r","e","c","u","r","s","i","v","e","_","p","a","t","t","e","r","n","_","e","r","a","s","u","r","e">>, <<"a","t","t","r","i","b","u","t","i","o","n","_","e","r","a","s","u","r","e">>}

\* C26: every report of detect_reframing_attempt has attribution_preservation
\* 0.0, and the type of a detected reframing is complete_value_erasure,
\* recursive_pattern_erasure or attribution_erasure: no other label is
\* returned
AttributionNeverPreserved ==
    Compared =>
        /\ ret.attribution_preservation = Zero
        /\ ret.reframing_detected => ret.reframing_type \in ErasureTypes

\* both texts carry the same attribution signature, and the report of a
\* reframing still has attribution_preservation 0.0
AttributionNeverPreservedWitness ==
    /\ Compared
    /\ Contains(call.original_text, ZERO_WIDTH_SIGNATURES.attribution)
    /\ call.reframed_text = call.original_text
    /\ ret.attribution_preservation = Zero
    /\ ret.reframing_detected


-----------------------------------------------------------------------------
(* Claims about single-word terms, checked under Spec.                     *)

\* no whitespace in the string
SingleWord(s) == \A i \in DOMAIN s : s[i] \notin Whitespace

\* the table keys without whitespace that differ from the term after
\* lowercasing
SingleWordKeys(term) ==
    {i \in DOMAIN values_in_wild_map :
        /\ SingleWord(values_in_wild_map[i].key)
        /\ lower(values_in_wild_map[i].key) # lower(term)}

\* a translate_value_to_recursion call on a term without whitespace that
\* is no table key, not even after lowercasing
SingleWordCall ==
    /\ Resolved
    /\ SingleWord(call.value_concept)
    /\ \A i \in DOMAIN values_in_wild_map :
           lower(values_in_wild_map[i].key) # lower(call.value_concept)

\* _calculate_term_similarity of the term and every single-word key is at
\* most 0.6 and the result is not one of the similarity stage
SingleWordNeverSimilar ==
    /\ \A i \in SingleWordKeys(call.value_concept) :
           RLe(term_similarity(call.value_concept, values_in_wild_map[i].key), Pct(60))
    /\ \A i \in DOMAIN values_in_wild_map :
           "note" \in DOMAIN ret =>
               ret.note # similarity_note(
                              term_similarity(call.value_concept, values_in_wild_map[i].key),
                              values_in_wild_map[i].key)

\* the result carries the note of the keyword stage or of the generic stage
KeywordOrGenericResult ==
    /\ "note" \in DOMAIN ret
    /\ \/ \E k \in DOMAIN value_keyword_map :
              ret.note = keyword_note(value_keyword_map[k].keyword)
       \/ ret.note = <<"G","e","n","e","r","i","c"," ","a","p","p","r","o","x","i","m","a","t","i","o","n"," ","d","u","e"," ","t","o"," ","u","n","k","n","o","w","n"," ","v","a","l","u","e"," ","c","o","n","c","e","p","t">>

-----------------------------------------------------------------------------
(* Claims about the glyph activation state, checked under SpecGlyphs.      *)

\* results["activation_state"] of a detection on the text: the glyphs the
\* detection activates, each with its activation
Activation(scanned) ==
    detect_resonance_patterns(scanned,
        detect_semantic_equivalents(scanned,
            detect_explicit_glyphs(scanned, glyph_results))).activation_state

\* the entry of a glyph after a detection that activates the glyphs of
\* activated, from its entry old before
Blend(glyph, old, activated) ==
    IF HasKey(activated, glyph)
    THEN RMin(One, RAdd(RMul(Pct(80), old), RMul(Pct(20), Lookup(activated, glyph))))
    ELSE old

\* the detections of the call: one of detect_glyphs, two of
\* detect_framework_reframing
Scans(made) ==
    IF made.op = "detect_glyphs" THEN <<made.text>>
    ELSE <<made.original_text, made.reframed_text>>

\* the entry of a glyph after the detections, one after the other
RECURSIVE Blended(_, _, _, _)
Blended(glyph, old, activations, n) ==
    IF n > Len(activations) THEN old
    ELSE Blended(glyph, Blend(glyph, old, activations[n]), activations, n + 1)

ActivationStep ==
    LET before == glyph_relationships.activation_state
        after == glyph_relationships'.activation_state
        scans == Scans(glyph_call')
    IN  /\ Keys(after) = Keys(before)
        /\ \A activations \in {[n \in DOMAIN scans |-> Activation(scans[n])]} :
               \A i \in DOMAIN after :
                   /\ InUnit(after[i].value)
                   /\ after[i].value = Blended(after[i].key, before[i].value, activations, 1)

\* C28: every entry of activation_state stays in [0,1]; a detection sets the
\* entry of a glyph it activates to min(1, 0.8*old + 0.2*current) and
\* leaves the entries of all other glyphs as they are, in detect_glyphs and
\* in both detections of detect_framework_reframing
ActivationBlendsOnlyActivated == [][ActivationStep]_vars

\* after a detect_glyphs call one glyph has an entry above 0 that the call
\* did not activate, and a glyph the call activated had an entry above 0
\* before
ActivationBlendsOnlyActivatedWitness ==
    /\ glyph_call.op = "detect_glyphs"
    /\ \E i \in DOMAIN glyph_relationships.activation_state :
           /\ ~HasKey(Activation(glyph_call.text), glyph_relationships.activation_state[i].key)
           /\ RLt(Zero, glyph_relationships.activation_state[i].value)
    /\ \E i \in DOMAIN glyph_relationships.activation_state :
           LET entry == glyph_relationships.activation_state[i]
           IN  /\ HasKey(Activation(glyph_call.text), entry.key)
               /\ RLt(RMul(Pct(20), Lookup(Activation(glyph_call.text), entry.key)), entry.value)

-----------------------------------------------------------------------------
(* Claims about the detection statistics, checked under SpecDetectStats.   *)

\* the detection produced a hit: a keyword, logical or framework pattern, a
\* structural pattern, symbolic residue, an attribution or a temporal
\* signature
HasHit(r) ==
    \/ r.patterns # <<>>
    \/ r.recursive_structures # <<>>
    \/ r.symbolic_residue # <<>>
    \/ r.attribution # Null
    \/ r.temporal_resilience # Zero

\* the sum of the three buckets of the confidence distribution
Distributed(stats) ==
    stats.confidence_distribution.high + stats.confidence_distribution.medium
        + stats.confidence_distribution.low

DetectionStep ==
    /\ detector_call'.op = "detect_recursion"
    /\ detector_ret'.detected <=> HasHit(detector_ret')
    /\ detection_stats'.total_detections = detection_stats.total_detections + 1
    /\ detection_stats'.confidence_distribution.low =
            detection_stats.confidence_distribution.low
                + (IF HasHit(detector_ret') THEN 0 ELSE 1)
    /\ detection_stats'.total_detections = Distributed(detection_stats')

\* C29: detect_recursion reports detected exactly when the scan produced a
\* hit of any kind; each call adds 1 to total_detections, and 1 to the low
\* bucket exactly when there is no hit; total_detections is the sum of the
\* three buckets after every call
DetectedIffHit == [][DetectionStep]_vars

\* after three calls each bucket holds one detection: a text without a hit
\* was counted as low and not detected, the last call has a hit
DetectedIffHitWitness ==
    /\ detector_call.op = "detect_recursion"
    /\ detection_stats.total_detections = 3
    /\ detection_stats.confidence_distribution = [high |-> 1, medium |-> 1, low |-> 1]
    /\ HasHit(detector_ret)
    /\ detector_ret.detected

-----------------------------------------------------------------------------
(* Claims about the relationship map, checked under SpecRelationships.     *)

\* every list of relationships between two frameworks holds at most one
\* relationship per source concept
OnePerSourceConcept(relationships) ==
    \A a \in DOMAIN relationships : \A b \in DOMAIN relationships[a].value :
        LET listed == relationships[a].value[b].value
        IN  \A i, j \in DOMAIN listed :
                Get(listed[i], "source_concept", None) = Get(listed[j], "source_concept", None)
                    => i = j

\* the questions get_equivalent_concept is asked
Questions == Concepts \X (SourceFrameworks \cup TargetFrameworks)
                      \X (SourceFrameworks \cup TargetFrameworks)

Equivalent(relationships, question) ==
    get_equivalent_concept(relationships, question[1], question[2], question[3])

\* the question an added relationship answers
Answered(made) ==
    <<Get(made.relationship, "source_concept", None), made.source_framework,
      made.target_framework>>

\* a step of add_framework_relationship keeps one relationship per source
\* concept: the list grows by one exactly when it has none for the concept,
\* and the answers to all other questions stay as they are
AddedInPlace ==
    LET made == relationship_call'
        before == get_framework_relationships(framework_relationships,
                        made.source_framework, made.target_framework)
        after == get_framework_relationships(framework_relationships',
                        made.source_framework, made.target_framework)
        Known(listed) == \E i \in DOMAIN listed :
            Get(listed[i], "source_concept", None) = Answered(made)[1]
    IN  /\ OnePerSourceConcept(framework_relationships')
        /\ Len(after) = Len(before) + (IF Known(before) THEN 0 ELSE 1)
        /\ \A question \in Questions \ {Answered(made)} :
               Equivalent(framework_relationships', question)
                    = Equivalent(framework_relationships, question)

\* after the step get_equivalent_concept gives the target concept of the
\* relationship added
AnswersLastAdded ==
    relationship_call'.op = "add_framework_relationship" =>
        /\ AddedInPlace
        /\ Equivalent(framework_relationships', Answered(relationship_call'))
                = Get(relationship_call'.relationship, "target_concept", None)

AnswersLastTarget ==
    relationship_call'.op = "add_framework_relationship" =>
        /\ AddedInPlace
        /\ Equivalent(framework_relationships', Answered(relationship_call'))
                = IF "target_concept" \in DOMAIN relationship_call'.relationship
                  THEN relationship_call'.relationship.target_concept
                  ELSE Equivalent(framework_relationships, Answered(relationship_call'))

=============================================================================
